---- MODULE Spec2Model ----
(***************************************************************************)
(* Streaming response handles of jclem/openai-go.                          *)
(*                                                                         *)
(* Two generations of the handle exist in the repository:                  *)
(*   "chat"   : chat.StreamingCompletionResponse   (pkg/chat, chat.go)     *)
(*   "openai" : openai.StreamingChatCompletionResponse (root package)      *)
(* Both pull events from an sseparser.StreamScanner and decode the data    *)
(* field of each event with UnmarshalSSEValue.                             *)
(*                                                                         *)
(* Texts are sequences of one-character strings, so that the sentinel      *)
(* comparison, the framing and the JSON decoding work on the bytes.        *)
(***************************************************************************)
EXTENDS Integers, Sequences, FiniteSets, TLC

\* Bounds of the model.
MaxFrames == 3
MaxEndCalls == 1
MaxChunk == 1
MaxIOFrames == 1
MaxCloseCalls == 2
MaxReadFails == 1
MaxLiveFrames == 2

NL == "\n"
QUOTE == "\""

\* ---------------------------------------------------------------- errors
\* An error is a chain of layers, outermost first; nil is the empty chain.
\* msg is the fixed text of the layer (the format string or errors.New text),
\* quote is the part of the message that is copied from the input.
NilErr == <<>>

Layer(msg, quote) == [msg |-> msg, quote |-> quote]

\* fmt.Errorf("<msg>: %w", err)
Wrap(msg, err) == <<Layer(msg, <<>>)>> \o err

\* errors.Is(err, target) for a sentinel target created by errors.New
ErrorsIs(err, target) == \E i \in 1..Len(err) : err[i] = target[1]

\* ------------------------------------------------------------ encoding/json
Digits == {"0", "1", "2", "3", "4", "5", "6", "7", "8", "9"}

WhiteSpace == {" ", "\t", "\n", "\r"}

RECURSIVE SkipWS(_, _)
SkipWS(s, i) ==
    IF i <= Len(s) /\ s[i] \in WhiteSpace THEN SkipWS(s, i + 1) ELSE i

RECURSIVE FindChar(_, _, _)
FindChar(s, i, c) ==
    IF i > Len(s) THEN 0
    ELSE IF s[i] = c THEN i
    ELSE FindChar(s, i + 1, c)

RECURSIVE DigitsEnd(_, _)
DigitsEnd(s, i) ==
    IF i <= Len(s) /\ s[i] \in Digits THEN DigitsEnd(s, i + 1) ELSE i

HasPrefixAt(s, i, p) ==
    /\ i + Len(p) - 1 <= Len(s)
    /\ SubSeq(s, i, i + Len(p) - 1) = p

\* Result of scanning one JSON value that starts at or after index i:
\* ok, the index after the value (or of the offending character), the kind
\* of value, the text of a string value, and the values found under the
\* key "id" of an object, in order.
JFail(i) == [ok |-> FALSE, next |-> i, t |-> "invalid", str |-> <<>>, ids |-> <<>>]

JVal(n, t, str, ids) == [ok |-> TRUE, next |-> n, t |-> t, str |-> str, ids |-> ids]

\* A string that starts with the quote at index i.
ParseString(s, i) ==
    LET j == FindChar(s, i + 1, QUOTE) IN
    IF j = 0
    THEN JFail(Len(s) + 1)
    ELSE JVal(j + 1, "string", SubSeq(s, i + 1, j - 1), <<>>)

RECURSIVE ParseValue(_, _)
RECURSIVE ParseMembers(_, _, _)
RECURSIVE ParseElements(_, _)

\* After a member "key": value of an object, with e the index of the next
\* character that is not white space.
AfterMemberAt(s, e, ids) ==
    IF e > Len(s) THEN JFail(e)
    ELSE IF s[e] = "}" THEN JVal(e + 1, "object", <<>>, ids)
    ELSE IF s[e] = "," THEN ParseMembers(s, e + 1, ids)
    ELSE JFail(e)

\* k is the key just read and v the value read after its colon.
AfterMember(s, k, v, ids) ==
    IF ~v.ok THEN v
    ELSE AfterMemberAt(s, SkipWS(s, v.next),
                       IF k.str = <<"i", "d">>
                       THEN Append(ids, [t |-> v.t, str |-> v.str])
                       ELSE ids)

\* k is the key just read.
AfterKey(s, k, ids) ==
    IF ~k.ok THEN k
    ELSE
        LET c == SkipWS(s, k.next) IN
        IF c > Len(s) \/ s[c] # ":" THEN JFail(c)
        ELSE AfterMember(s, k, ParseValue(s, c + 1), ids)

\* The members of an object, the first of which starts at or after i0.
ParseMembers(s, i0, ids) ==
    LET i == SkipWS(s, i0) IN
    IF i > Len(s) \/ s[i] # QUOTE THEN JFail(i)
    ELSE AfterKey(s, ParseString(s, i), ids)

\* v is the element just read.
AfterElement(s, v) ==
    IF ~v.ok THEN v
    ELSE
        LET e == SkipWS(s, v.next) IN
        IF e > Len(s) THEN JFail(e)
        ELSE IF s[e] = "]" THEN JVal(e + 1, "array", <<>>, <<>>)
        ELSE IF s[e] = "," THEN ParseElements(s, e + 1)
        ELSE JFail(e)

\* The elements of an array, the first of which starts at or after i0.
ParseElements(s, i0) == AfterElement(s, ParseValue(s, i0))

\* The value that starts at index i.
ParseValueAt(s, i) ==
    IF i > Len(s) THEN JFail(i)
    ELSE IF s[i] = "{" THEN
        LET j == SkipWS(s, i + 1) IN
        IF j <= Len(s) /\ s[j] = "}"
        THEN JVal(j + 1, "object", <<>>, <<>>)
        ELSE ParseMembers(s, j, <<>>)
    ELSE IF s[i] = "[" THEN
        LET j == SkipWS(s, i + 1) IN
        IF j <= Len(s) /\ s[j] = "]"
        THEN JVal(j + 1, "array", <<>>, <<>>)
        ELSE ParseElements(s, j)
    ELSE IF s[i] = QUOTE THEN ParseString(s, i)
    ELSE IF s[i] \in Digits THEN
        IF s[i] = "0"
        THEN JVal(i + 1, "number", <<>>, <<>>)
        ELSE JVal(DigitsEnd(s, i), "number", <<>>, <<>>)
    ELSE IF HasPrefixAt(s, i, <<"n", "u", "l", "l">>) THEN
        JVal(i + 4, "null", <<>>, <<>>)
    ELSE IF HasPrefixAt(s, i, <<"t", "r", "u", "e">>) THEN
        JVal(i + 4, "bool", <<>>, <<>>)
    ELSE IF HasPrefixAt(s, i, <<"f", "a", "l", "s", "e">>) THEN
        JVal(i + 5, "bool", <<>>, <<>>)
    ELSE JFail(i)

ParseValue(s, i0) == ParseValueAt(s, SkipWS(s, i0))

\* *json.SyntaxError: the message quotes the offending character only.
SyntaxError(s, i) ==
    IF i > Len(s)
    THEN <<Layer("unexpected end of JSON input", <<>>)>>
    ELSE <<Layer("invalid character", <<s[i]>>)>>

\* *json.UnmarshalTypeError: the message names the JSON kind and the Go type.
UnmarshalTypeError == <<Layer("json: cannot unmarshal", <<>>)>>

\* The streaming object, as far as the model follows it: its ID field.
ZeroObject == [ID |-> <<>>]

RECURSIVE LastStringID(_, _)
LastStringID(ids, dflt) ==
    IF ids = <<>> THEN dflt
    ELSE IF ids[Len(ids)].t = "string" THEN ids[Len(ids)].str
    ELSE LastStringID(SubSeq(ids, 1, Len(ids) - 1), dflt)

\* The decoding of a scanned value p into the object o.
JsonDecode(data, o, p) ==
    LET e == IF p.ok THEN SkipWS(data, p.next) ELSE p.next IN
    IF ~p.ok THEN [err |-> SyntaxError(data, p.next), obj |-> o]
    ELSE IF e <= Len(data) THEN [err |-> SyntaxError(data, e), obj |-> o]
    ELSE IF p.t = "null" THEN [err |-> NilErr, obj |-> o]
    ELSE IF p.t # "object" THEN [err |-> UnmarshalTypeError, obj |-> o]
    ELSE IF \E k \in 1..Len(p.ids) : p.ids[k].t \notin {"string", "null"}
        THEN [err |-> UnmarshalTypeError,
              obj |-> [o EXCEPT !.ID = LastStringID(p.ids, o.ID)]]
    ELSE [err |-> NilErr, obj |-> [o EXCEPT !.ID = LastStringID(p.ids, o.ID)]]

\* json.Unmarshal(data, o) for o a pointer to a streaming object.
JsonUnmarshal(data, o) == JsonDecode(data, o, ParseValue(data, 1))

\* if err := json.Unmarshal(...); err != nil { return fmt.Errorf(msg, err) }
\* return nil
WrapIfError(msg, r) ==
    [err |-> IF r.err # NilErr THEN Wrap(msg, r.err) ELSE NilErr, obj |-> r.obj]

\* ------------------------------------------------------- payload decoder
\* const streamDoneString = "[DONE]"
streamDoneString == <<"[", "D", "O", "N", "E", "]">>

\* var ErrStreamDone = errors.New("completion stream is done")
ErrStreamDone == <<Layer("completion stream is done", <<>>)>>

\* var errStreamIsDone = errors.New("completion stream is done")  (package openai)
errStreamIsDone == <<Layer("completion stream is done", <<>>)>>

\* ChatUnmarshalSSEValue without the sentinel comparison.
ChatUnmarshalSSEValue_NoSentinel(v) ==
    WrapIfError("error unmarshaling streaming completion object",
                JsonUnmarshal(v, ZeroObject))

\* ChatUnmarshalSSEValue dropping the error of json.Unmarshal.
ChatUnmarshalSSEValue_SwallowJsonError(v) ==
    IF v = streamDoneString
    THEN [err |-> ErrStreamDone, obj |-> ZeroObject]
    ELSE [err |-> NilErr, obj |-> JsonUnmarshal(v, ZeroObject).obj]

\* func (o *StreamingCompletionObject) UnmarshalSSEValue(v string) error
\* o is the zero object of a fresh event; the result is the error and *o.
ChatUnmarshalSSEValue(v) ==
    IF v = streamDoneString
    THEN [err |-> ErrStreamDone, obj |-> ZeroObject]
    ELSE WrapIfError("error unmarshaling streaming completion object",
                     JsonUnmarshal(v, ZeroObject))

\* func (o *StreamingChatCompletionObject) UnmarshalSSEValue(v string) error
OpenaiUnmarshalSSEValue(v) ==
    IF v = streamDoneString
    THEN [err |-> errStreamIsDone, obj |-> ZeroObject]
    ELSE WrapIfError("error unmarshaling streaming chat completion object",
                     JsonUnmarshal(v, ZeroObject))

UnmarshalSSEValue(g, v) ==
    IF g = "chat" THEN ChatUnmarshalSSEValue(v) ELSE OpenaiUnmarshalSSEValue(v)

\* ---------------------------------------------- sseparser.StreamScanner
\* The scanner is the sseparser dependency; its code is not in the
\* repository.  It is modelled from the specification: bytes are appended to
\* a buffer until the buffer holds an event (fields up to a blank line), the
\* event is removed from the buffer and its data field is handed to
\* UnmarshalSSEValue; a source at end-of-data yields ErrStreamEOF.
ErrStreamEOF == <<Layer("sseparser: stream EOF", <<>>)>>

\* Index of the line end that closes the first event of b (an empty line),
\* or 0 when b holds no complete event.
RECURSIVE EventEndFrom(_, _)
EventEndFrom(b, i) ==
    IF i > Len(b) THEN 0
    ELSE IF b[i] = NL /\ (i = 1 \/ b[i - 1] = NL) THEN i
    ELSE EventEndFrom(b, i + 1)

EventEnd(b) == EventEndFrom(b, 1)

\* HasEvent that takes an event to be complete only once a byte follows it.
HasEvent_NeedsLookahead(b) == EventEnd(b) # 0 /\ EventEnd(b) < Len(b)

HasEvent(b) == EventEnd(b) # 0

\* The lines of a text in which every line is ended by NL.
RECURSIVE Lines(_)
Lines(t) ==
    IF t = <<>> THEN <<>>
    ELSE
        LET e == FindChar(t, 1, NL) IN
        IF e = 0 THEN <<t>>
        ELSE <<SubSeq(t, 1, e - 1)>> \o Lines(SubSeq(t, e + 1, Len(t)))

\* One field line: "name: value", "name:value" or "name"; a line that starts
\* with a colon is a comment.
ParseField(line) ==
    LET c == FindChar(line, 1, ":") IN
    IF c = 1 THEN [comment |-> TRUE, name |-> <<>>, value |-> <<>>]
    ELSE IF c = 0 THEN [comment |-> FALSE, name |-> line, value |-> <<>>]
    ELSE
        LET v == SubSeq(line, c + 1, Len(line)) IN
        [comment |-> FALSE,
         name    |-> SubSeq(line, 1, c - 1),
         value   |-> IF v # <<>> /\ v[1] = " " THEN Tail(v) ELSE v]

\* The event parsed from the text of one event (without its closing line).
ParseEvent(t) ==
    LET ls == Lines(t) IN
    [k \in 1..Len(ls) |-> ParseField(ls[k])]

DataName == <<"d", "a", "t", "a">>

\* The values of the data fields of an event, in order.
RECURSIVE DataValues(_)
DataValues(ev) ==
    IF ev = <<>> THEN <<>>
    ELSE
        LET f == ev[1] IN
        (IF ~f.comment /\ f.name = DataName THEN <<f.value>> ELSE <<>>)
            \o DataValues(Tail(ev))

\* The outcome of UnmarshalSSEValue(v): error, object, and the argument.
Called(v, r) == [err |-> r.err, obj |-> r.obj, called |-> <<v>>]

\* Unmarshalling an event into a struct{ Data T `sse:"data"` }: the data
\* field's value is handed to T.UnmarshalSSEValue, whose error is returned.
\* ds are the values of the event's data fields.
UnmarshalData(g, ds) ==
    IF ds = <<>>
    THEN [err |-> NilErr, obj |-> ZeroObject, called |-> <<>>]
    ELSE Called(ds[Len(ds)], UnmarshalSSEValue(g, ds[Len(ds)]))

UnmarshalEvent(g, ev) == UnmarshalData(g, DataValues(ev))

\* TakeEvent leaving the closing line end of the event in the buffer.
TakeEvent_KeepLineEnd(b) ==
    LET e == EventEnd(b) IN
    [raw  |-> SubSeq(b, 1, e),
     rest |-> SubSeq(b, e, Len(b))]

\* The first event of the buffer b and what is left of the buffer.
TakeEvent(b) ==
    LET e == EventEnd(b) IN
    [raw  |-> SubSeq(b, 1, e),
     rest |-> SubSeq(b, e + 1, Len(b))]

\* What UnmarshalNext returns and leaves: r is the outcome of unmarshalling
\* the event raw, rest is the buffer after it.
Scanned(r, raw, rest) ==
    [err |-> r.err, data |-> r.obj, called |-> r.called,
     raw |-> raw, rest |-> rest]

\* UnmarshalNext leaving the event in the buffer when unmarshalling fails.
KeepOnError(s, b) == [s EXCEPT !.rest = IF s.err # NilErr THEN b ELSE s.rest]

UnmarshalTaken(g, te) ==
    Scanned(UnmarshalEvent(g, ParseEvent(SubSeq(te.raw, 1, Len(te.raw) - 1))),
            te.raw, te.rest)

UnmarshalNext_KeepOnError(g, b) == KeepOnError(UnmarshalTaken(g, TakeEvent(b)), b)

\* StreamScanner.UnmarshalNext when the buffer b holds an event: the event is
\* taken out of the buffer and unmarshalled.
UnmarshalNext(g, b) == UnmarshalTaken(g, TakeEvent(b))

\* ------------------------------------------------------------ the handles
\* A result of Next: obj is <<>> for a nil pointer and <<o>> for &o.
Result(obj, err) == [obj |-> obj, err |-> err]

\* ChatNext formatting the other errors without wrapping them (%v for %w).
ChatNext_DropCause(err, data) ==
    IF err # NilErr THEN
        IF ErrorsIs(err, ErrStreamEOF)
        THEN Result(<<>>, Wrap("stream ended before [DONE]", err))
        ELSE IF ErrorsIs(err, ErrStreamDone)
        THEN Result(<<>>, ErrStreamDone)
        ELSE Result(<<>>, Wrap("error reading next object from stream", NilErr))
    ELSE Result(<<data>>, NilErr)

\* ChatNext without the branch for ErrStreamDone.
ChatNext_DoneAsReadError(err, data) ==
    IF err # NilErr THEN
        IF ErrorsIs(err, ErrStreamEOF)
        THEN Result(<<>>, Wrap("stream ended before [DONE]", err))
        ELSE Result(<<>>, Wrap("error reading next object from stream", err))
    ELSE Result(<<data>>, NilErr)

\* func (s *StreamingCompletionResponse) Next()  (package chat)
\* err and data are what s.scanner.UnmarshalNext(&evt) returned and stored.
ChatNext(err, data) ==
    IF err # NilErr THEN
        IF ErrorsIs(err, ErrStreamEOF)
        THEN Result(<<>>, Wrap("stream ended before [DONE]", err))
        ELSE IF ErrorsIs(err, ErrStreamDone)
        THEN Result(<<>>, ErrStreamDone)
        ELSE Result(<<>>, Wrap("error reading next object from stream", err))
    ELSE Result(<<data>>, NilErr)

\* func (s *StreamingChatCompletionResponse) Next()  (package openai)
OpenaiNext(err, data) ==
    IF err # NilErr THEN
        IF ErrorsIs(err, ErrStreamEOF)
        THEN Result(<<>>, NilErr)
        ELSE IF ErrorsIs(err, errStreamIsDone)
        THEN Result(<<>>, NilErr)
        ELSE Result(<<>>, Wrap("error reading next object from stream", err))
    ELSE Result(<<data>>, NilErr)

HandleNext(g, err, data) ==
    IF g = "chat" THEN ChatNext(err, data) ELSE OpenaiNext(err, data)

\* ChatClose dropping the error of the closer.
ChatClose_SwallowError(cerr) == NilErr

\* func (s *StreamingCompletionResponse) Close() error  (package chat)
\* cerr is what s.closer.Close() returned.
ChatClose(cerr) ==
    IF cerr # NilErr THEN Wrap("error closing stream", cerr) ELSE NilErr

\* Package openai has no Close method: the caller closes the exported
\* ReadCloser field of the handle and gets the body's error as it is.
OpenaiClose(cerr) == cerr

HandleClose(g, cerr) ==
    IF g = "chat" THEN ChatClose(cerr) ELSE OpenaiClose(cerr)

\* ------------------------------------------------------------ the stream
\* Payloads the server may put in a data field.
ObjA == <<"{", QUOTE, "i", "d", QUOTE, ":", QUOTE, "a", QUOTE, "}">>

ObjB == <<"{", QUOTE, "i", "d", QUOTE, ":", QUOTE, "b", QUOTE, "}">>

NotValidJson ==
    <<"{", "n", "o", "t", " ", "v", "a", "l", "i", "d", " ", "j", "s", "o", "n", "}">>

EmptyArray == <<"[", "]">>

Payloads == {ObjA, ObjB, streamDoneString, NotValidJson, EmptyArray}

\* The bytes of one frame on the wire: "data: <payload>\n\n".
Frame(p) == <<"d", "a", "t", "a", ":", " ">> \o p \o <<NL, NL>>

RECURSIVE Concat(_)
Concat(ss) == IF ss = <<>> THEN <<>> ELSE ss[1] \o Concat(Tail(ss))

WireOf(fs) == Concat([k \in 1..Len(fs) |-> Frame(fs[k])])

Generations == {"chat", "openai"}

VARIABLES
    gen,      \* which handle type the caller holds
    frames,   \* the payloads the server sends, in order
    wire,     \* the bytes of the response body
    pos,      \* how many bytes of the body have been read
    eof,      \* the body has reported end-of-data
    buf,      \* StreamScanner: bytes read and not yet part of an event
    pc,       \* "idle", or "next" while a Next call is in progress
    results,  \* what the Next calls returned, in order
    emitted,  \* the raw events the scanner took out of its buffer, in order
    decodes,  \* the UnmarshalSSEValue calls made: argument, error, object
    splitDelim, \* some read ended between the two line ends of a delimiter
    closerCalls, \* how many times the body's Close method has been invoked
    closeRets,   \* the caller's Close calls: the body's error and what came back
    readFails,   \* the reads that failed: the error and the Next call it ended
    http         \* the client call that was made, its inputs and what it returned

vars == <<gen, frames, wire, pos, eof, buf, pc, results, emitted, decodes,
          splitDelim, closerCalls, closeRets, readFails, http>>

\* No client call is followed: the handle was made from a response body.
NoCall == [op |-> "none"]

\* newStreamingCompletionResponse / newStreamingChatCompletionResponse:
\* a scanner with an empty buffer over the unread body.
Init ==
    /\ gen \in Generations
    /\ frames \in UNION {[1..n -> Payloads] : n \in 0..MaxFrames}
    /\ wire = WireOf(frames)
    /\ pos = 0
    /\ eof = FALSE
    /\ buf = <<>>
    /\ pc = "idle"
    /\ results = <<>>
    /\ emitted = <<>>
    /\ decodes = <<>>
    /\ splitDelim = FALSE
    /\ closerCalls = 0
    /\ closeRets = <<>>
    /\ readFails = <<>>
    /\ http = NoCall

\* The caller calls Next.  Every call ends with an event or at end-of-data;
\* the calls that end at end-of-data are capped.
CallNext ==
    /\ pc = "idle"
    /\ Len(results) - Len(emitted) - Len(readFails) < MaxEndCalls
    /\ pc' = "next"
    /\ UNCHANGED <<gen, frames, wire, pos, eof, buf, results, emitted,
                   decodes, splitDelim>>
    /\ UNCHANGED <<closerCalls, closeRets, readFails, http>>

\* Position p of the body lies between the two line ends of a delimiter.
MidDelimiter(w, p) ==
    /\ 1 < p /\ p < Len(w)
    /\ w[p] = NL /\ w[p + 1] = NL /\ w[p - 1] # NL

\* A read returns at least one byte and at most what is left of the body:
\* a few bytes, or all that is left in one block.
ChunkSizes(left) == {n \in 1..MaxChunk : n <= left} \cup {n \in {left} : n >= 1}

\* The scanner reads the next n bytes of the body into its buffer.
\* ScannerRead that overwrites the buffer with the bytes just read.
ScannerRead_Replace(b, chunk) == chunk

ScannerRead(b, chunk) == b \o chunk

ReadChunk ==
    /\ pc = "next"
    /\ ~HasEvent(buf)
    /\ ~eof
    /\ \E n \in ChunkSizes(Len(wire) - pos) :
        /\ buf' = ScannerRead(buf, SubSeq(wire, pos + 1, pos + n))
        /\ pos' = pos + n
        /\ splitDelim' = (splitDelim \/ MidDelimiter(wire, pos + n))
    /\ UNCHANGED <<gen, frames, wire, eof, pc, results, emitted, decodes>>
    /\ UNCHANGED <<closerCalls, closeRets, readFails, http>>

\* The buffer holds an event: UnmarshalNext takes it and Next returns r.
Emit(r) ==
    /\ buf' = r.rest
    /\ emitted' = Append(emitted, r.raw)
    /\ results' = Append(results, HandleNext(gen, r.err, r.data))
    /\ decodes' = decodes \o
            [k \in 1..Len(r.called) |->
                [v |-> r.called[k], err |-> r.err, obj |-> r.data]]

EmitEvent ==
    /\ pc = "next"
    /\ HasEvent(buf)
    /\ Emit(UnmarshalNext(gen, buf))
    /\ pc' = "idle"
    /\ UNCHANGED <<gen, frames, wire, pos, eof, splitDelim>>
    /\ UNCHANGED <<closerCalls, closeRets, readFails, http>>

\* Where the body may end: after its last byte (the server closed it), or
\* earlier when the connection drops, which the model lets happen between two
\* frames, in the middle of a delimiter and right after a field name.
MayEndAt(w, p) ==
    IF p = Len(w) \/ p = 0 THEN TRUE ELSE w[p] \in {NL, ":"}

\* ReadEOF that also closes the body when it meets end-of-data.
ReadEOF_ClosesBody ==
    /\ pc = "next"
    /\ ~HasEvent(buf)
    /\ MayEndAt(wire, pos)
    /\ eof' = TRUE
    /\ results' = Append(results, HandleNext(gen, ErrStreamEOF, ZeroObject))
    /\ pc' = "idle"
    /\ closerCalls' = closerCalls + 1
    /\ UNCHANGED <<gen, frames, wire, pos, buf, emitted, decodes, splitDelim>>
    /\ UNCHANGED <<closeRets, readFails, http>>

\* The body ends: UnmarshalNext returns ErrStreamEOF.
ReadEOF ==
    /\ pc = "next"
    /\ ~HasEvent(buf)
    /\ MayEndAt(wire, pos)
    /\ eof' = TRUE
    /\ results' = Append(results, HandleNext(gen, ErrStreamEOF, ZeroObject))
    /\ pc' = "idle"
    /\ UNCHANGED <<gen, frames, wire, pos, buf, emitted, decodes, splitDelim>>
    /\ UNCHANGED <<closerCalls, closeRets, readFails, http>>

Next ==
    \/ CallNext
    \/ ReadChunk
    \/ EmitEvent
    \/ ReadEOF

Spec == Init /\ [][Next]_vars

TypeOK ==
    /\ gen \in Generations
    /\ pos \in 0..Len(wire)
    /\ eof \in BOOLEAN
    /\ pc \in {"idle", "next"}
    /\ Len(buf) <= pos

\* ------------------------------------------- the transport and its failures
\* Errors of the response body.  io.ErrUnexpectedEOF and context.Canceled are
\* what a read of a broken or cancelled connection returns; a read after a
\* successful Close returns net/http's "read on closed response body".
ErrUnexpectedEOF == <<Layer("unexpected EOF", <<>>)>>

ErrCanceled == <<Layer("context canceled", <<>>)>>

ErrReadOnClosedBody == <<Layer("http: read on closed response body", <<>>)>>

ErrCloseFailed == <<Layer("close: connection reset by peer", <<>>)>>

CloseErrors == {NilErr, ErrCloseFailed}

\* The body has been closed (a Close of it succeeded).
BodyClosed == \E k \in 1..Len(closeRets) : closeRets[k].inner = NilErr

ReadErrors == IF BodyClosed THEN {ErrReadOnClosedBody} ELSE {ErrUnexpectedEOF, ErrCanceled}

\* StreamScanner.UnmarshalNext when the read of the source fails with e, an
\* error other than io.EOF: the error is returned to Next.
ScannerReadError(e) == e

\* A read of the body fails: UnmarshalNext returns the error, Next returns.
\* The connection breaks where the model lets it drop.
ReadFail ==
    /\ pc = "next"
    /\ ~HasEvent(buf)
    /\ ~eof
    /\ MayEndAt(wire, pos)
    /\ Len(readFails) < MaxReadFails
    /\ \E e \in ReadErrors :
        /\ readFails' = Append(readFails, [cause |-> e, at |-> Len(results) + 1])
        /\ results' = Append(results,
                             HandleNext(gen, ScannerReadError(e), ZeroObject))
    /\ pc' = "idle"
    /\ UNCHANGED <<gen, frames, wire, pos, eof, buf, emitted, decodes,
                   splitDelim, closerCalls, closeRets, http>>

\* CallClose that reads the rest of the body before it closes it.
CallClose_DrainsBody ==
    /\ pc = "idle"
    /\ Len(closeRets) < MaxCloseCalls
    /\ \E cerr \in CloseErrors :
        /\ closerCalls' = closerCalls + 1
        /\ closeRets' = Append(closeRets,
                               [inner |-> cerr,
                                ret   |-> HandleClose(gen, cerr),
                                seen  |-> results])
    /\ pos' = Len(wire)
    /\ eof' = TRUE
    /\ UNCHANGED <<gen, frames, wire, buf, pc, results, emitted,
                   decodes, splitDelim, readFails, http>>

\* The caller closes the stream: stream.Close() of package chat,
\* stream.ReadCloser.Close() of package openai.  seen is what the Next calls
\* had returned when Close was called.
CallClose ==
    /\ pc = "idle"
    /\ Len(closeRets) < MaxCloseCalls
    /\ \E cerr \in CloseErrors :
        /\ closerCalls' = closerCalls + 1
        /\ closeRets' = Append(closeRets,
                               [inner |-> cerr,
                                ret   |-> HandleClose(gen, cerr),
                                seen  |-> results])
    /\ UNCHANGED <<gen, frames, wire, pos, eof, buf, pc, results, emitted,
                   decodes, splitDelim, readFails, http>>

\* The handle with its transport: Next and Close calls of one caller over a
\* body that may fail.
IOPayloads == {ObjA, streamDoneString, NotValidJson}

IOInit ==
    /\ Init
    /\ Len(frames) <= MaxIOFrames
    /\ \A k \in 1..Len(frames) : frames[k] \in IOPayloads

IONext ==
    \/ CallNext /\ (BodyClosed => Len(readFails) < MaxReadFails)
    \/ ReadChunk /\ ~BodyClosed
    \/ EmitEvent
    \/ ReadEOF /\ ~BodyClosed
    \/ ReadFail
    \/ CallClose

IOSpec == IOInit /\ [][IONext]_vars

\* The handle over a body that may go silent: nothing makes the source deliver
\* or end, but a Next call runs on the caller's thread, so a step of it that
\* waits for no read (taking an event that is in the buffer) is taken.
LiveInit ==
    /\ Init
    /\ Len(frames) <= MaxLiveFrames
    /\ \A k \in 1..Len(frames) : frames[k] \in IOPayloads

\* The steps of EmitEvent, told by what they do to pc: among the steps of Next
\* only EmitEvent ends a call whose buffer holds an event.
NextTakesEvent == pc = "next" /\ HasEvent(buf) /\ pc' = "idle"

LiveSpec == LiveInit /\ [][Next]_vars /\ WF_pc(NextTakesEvent)

\* ------------------------------------------------- what the claims refer to
\* What the server meant by a payload.
Class(p) ==
    IF p = streamDoneString THEN "done"
    ELSE IF p \in {ObjA, ObjB} THEN "object"
    ELSE "malformed"

IdOf(p) == IF p = ObjA THEN <<"a">> ELSE IF p = ObjB THEN <<"b">> ELSE <<>>

\* The payloads that are JSON texts (of any shape).
IsJSONText(p) == p \in {ObjA, ObjB, EmptyArray}

\* The stream-complete signal of a handle: ErrStreamDone for package chat,
\* (nil, nil) for package openai.
Complete(g) ==
    IF g = "chat" THEN Result(<<>>, ErrStreamDone) ELSE Result(<<>>, NilErr)

\* Result k was returned for the event that carried the [DONE] payload.
DoneAt(k) == k <= Len(decodes) /\ decodes[k].v = streamDoneString

\* The results after the last event are those of calls that met end-of-data.
EndResults == (Len(emitted) + 1)..Len(results)

\* The connection dropped before the whole body was delivered.
Dropped == eof /\ pos < Len(wire)

Contains(t, v) ==
    \E i \in 1..(Len(t) - Len(v) + 1) : SubSeq(t, i, i + Len(v) - 1) = v

ReadNextMsg == "error reading next object from stream"

\* Result r is what payload p calls for.
Matches(g, r, p) ==
    IF Class(p) = "object" THEN r = Result(<<[ID |-> IdOf(p)]>>, NilErr)
    ELSE IF Class(p) = "done" THEN r = Complete(g)
    ELSE r.obj = <<>> /\ r.err # NilErr /\ r.err[1].msg = ReadNextMsg

\* C1: once Next has reported completion for the [DONE] frame, every later
\* Next call that meets end-of-data returns that same completion signal.
C1_IdempotentExhaustion ==
    \A i \in 1..Len(emitted) : \A j \in EndResults :
        DoneAt(i) => results[j] = results[i]

\* C2: when the source ends and no [DONE] frame was observed, the Next call
\* that meets end-of-data returns an error, and not the completion signal.
C2_AbnormalEndIsError ==
    \A j \in EndResults :
        (\A i \in 1..Len(decodes) : ~DoneAt(i)) =>
            /\ results[j].obj = <<>>
            /\ results[j].err # NilErr
            /\ results[j] # Complete(gen)

\* C3: at the [DONE] frame Next returns a nil object and a nil error.
C3_CompleteIsNilNil ==
    \A i \in 1..Len(results) : DoneAt(i) => results[i] = Result(<<>>, NilErr)

\* The decoder's three outcomes, read off what one UnmarshalSSEValue call
\* returned.
Terminal(d) == d.err = ErrStreamDone /\ d.obj = ZeroObject

Decoded(d) == d.err = NilErr

Malformed(d) ==
    /\ Len(d.err) >= 2
    /\ d.err[1].msg \in {"error unmarshaling streaming completion object",
                         "error unmarshaling streaming chat completion object"}
    /\ d.err[2].msg \in {"invalid character", "unexpected end of JSON input",
                         "json: cannot unmarshal"}

ExactlyOne(a, b, c) == (a /\ ~b /\ ~c) \/ (~a /\ b /\ ~c) \/ (~a /\ ~b /\ c)

\* C4 as stated: Terminal exactly for "[DONE]"; any other payload is Decoded
\* when it is a JSON text and Malformed otherwise.
C4_DecodedIffJSON ==
    \A k \in 1..Len(decodes) :
        LET d == decodes[k] IN
        /\ ExactlyOne(Terminal(d), Decoded(d), Malformed(d))
        /\ Terminal(d) <=> d.v = streamDoneString
        /\ d.v # streamDoneString => (Decoded(d) <=> IsJSONText(d.v))

\* C4 amended: Terminal exactly for "[DONE]" (the object untouched, no JSON
\* error); any other payload is Decoded when it decodes as JSON into the
\* streaming object and Malformed otherwise, a JSON text of another shape
\* included; exactly one of the three outcomes occurs.
C4_SentinelPrecedence ==
    \A k \in 1..Len(decodes) :
        LET d == decodes[k] IN
        /\ ExactlyOne(Terminal(d), Decoded(d), Malformed(d))
        /\ Terminal(d) <=> d.v = streamDoneString
        /\ Decoded(d) <=> Class(d.v) = "object"
        /\ Decoded(d) => d.obj = [ID |-> IdOf(d.v)]

C4_Witness ==
    /\ gen = "chat"
    /\ \E i, j, k \in 1..Len(decodes) :
        /\ decodes[i].v = streamDoneString /\ Terminal(decodes[i])
        /\ decodes[j].v = EmptyArray /\ Malformed(decodes[j])
        /\ decodes[k].v = ObjA /\ Decoded(decodes[k])

\* Index of the first [DONE] payload of fs, or 0.
RECURSIVE FirstDoneFrom(_, _)
FirstDoneFrom(fs, k) ==
    IF k > Len(fs) THEN 0
    ELSE IF fs[k] = streamDoneString THEN k
    ELSE FirstDoneFrom(fs, k + 1)

FirstDone(fs) == FirstDoneFrom(fs, 1)

\* C5: for a body of N well-formed data frames followed by a [DONE] frame,
\* the first N Next calls return the N objects in stream order with a nil
\* error, and call N+1 returns the stream-complete signal.
C5_ObjectsThenComplete ==
    LET n == FirstDone(frames) IN
    (/\ n > 0
     /\ \A k \in 1..(n - 1) : Class(frames[k]) = "object"
     /\ ~Dropped)
    => \A k \in 1..Len(results) :
         k <= n =>
            results[k] = IF k < n
                         THEN Result(<<[ID |-> IdOf(frames[k])]>>, NilErr)
                         ELSE Complete(gen)

C5_Witness ==
    /\ gen = "chat"
    /\ frames = <<ObjA, ObjB, streamDoneString>>
    /\ ~Dropped
    /\ Len(results) = Len(frames)
    /\ results[Len(frames)] = Complete(gen)

\* The results of pulling every event out of bytes that are all there.
RECURSIVE BlockResults(_, _)
BlockResults(g, bytes) ==
    IF ~HasEvent(bytes) THEN <<>>
    ELSE
        LET r == UnmarshalNext(g, bytes) IN
        <<HandleNext(g, r.err, r.data)>> \o BlockResults(g, r.rest)

\* C6: the results of the Next calls are those of the same bytes delivered
\* in one block, however the reads split them: each event's result is the
\* block result at the same place, and end-of-data is reported only when
\* every event of the delivered bytes has been returned.
C6_IncrementalDelivery ==
    LET ref == BlockResults(gen, SubSeq(wire, 1, pos)) IN
    /\ Len(emitted) <= Len(ref)
    /\ \A k \in 1..Len(emitted) : k <= Len(results) /\ results[k] = ref[k]
    /\ \A j \in EndResults :
        /\ Len(emitted) = Len(ref)
        /\ results[j] = HandleNext(gen, ErrStreamEOF, ZeroObject)

C6_Witness ==
    /\ splitDelim
    /\ Len(frames) = MaxFrames
    /\ Len(emitted) = Len(frames)
    /\ Len(results) > Len(emitted)
    /\ \E k \in 1..Len(frames) : Class(frames[k]) = "object"

C8_NoPoison ==
    /\ Len(emitted) <= Len(frames)
    /\ Len(emitted) <= Len(results)
    /\ \A j \in 1..Len(emitted) : \A k \in (j + 1)..Len(emitted) :
        (/\ Class(frames[j]) = "malformed"
         /\ \A i \in 1..(k - 1) : frames[i] # streamDoneString)
        => /\ emitted[j] = Frame(frames[j])
           /\ emitted[k] = Frame(frames[k])
           /\ Matches(gen, results[j], frames[j])
           /\ Matches(gen, results[k], frames[k])

C8_Witness ==
    /\ gen = "chat"
    /\ frames = <<NotValidJson, ObjA, streamDoneString>>
    /\ Len(results) = Len(frames)
    /\ results[Len(frames) - 1] = Result(<<[ID |-> IdOf(ObjA)]>>, NilErr)
    /\ results[Len(frames)] = Complete(gen)

\* C9: once Next has observed the [DONE] frame, no later Next call returns
\* an object.
C9_NoObjectAfterDone ==
    \A i \in 1..Len(results) : \A j \in (i + 1)..Len(results) :
        DoneAt(i) => results[j].obj = <<>>

\* C10: the events taken out of the buffer followed by the buffer are
\* exactly the bytes read so far, each event taken is the next frame of the
\* body, and each gave one result: no frame is returned twice, no byte is
\* dropped, and the buffer holds only bytes after the last event's end.
C10_BufferAccounting ==
    /\ Concat(emitted) \o buf = SubSeq(wire, 1, pos)
    /\ Len(emitted) <= Len(frames)
    /\ \A k \in 1..Len(emitted) : emitted[k] = Frame(frames[k])
    /\ Len(emitted) <= Len(results)
    /\ Len(decodes) = Len(emitted)

C10_Witness ==
    /\ pc = "idle"
    /\ Len(emitted) >= 2
    /\ buf # <<>>
    /\ Len(results) = Len(emitted)

\* ------------------------------------------------------ Close and the reads
\* C11: the body's Close method is invoked only by the caller's Close calls:
\* whatever the Next calls returned (object, completion, abnormal end, decode
\* error, read error), it has been invoked as many times as Close was called.
C11_OnlyCloseReleases == closerCalls = Len(closeRets)

\* A read failure, an object and an abnormal end have been returned, and the
\* caller has not called Close.
C11_Witness ==
    /\ gen = "chat"
    /\ pc = "idle"
    /\ closeRets = <<>>
    /\ readFails # <<>>
    /\ eof
    /\ \E k \in 1..Len(results) : results[k].obj # <<>>
    /\ \E k \in 1..Len(results) : ErrorsIs(results[k].err, ErrStreamEOF)

IsPrefix(a, b) == Len(a) <= Len(b) /\ SubSeq(b, 1, Len(a)) = a

\* C12: every Close call invokes the body's Close once; it returns nil
\* exactly when the body's Close returned nil, and otherwise an error that
\* wraps the body's error ("error closing stream: ..." for package chat); the
\* results returned before the call are still the first results afterwards.
C12_CloseWrapsCloserError ==
    /\ closerCalls = Len(closeRets)
    /\ \A k \in 1..Len(closeRets) :
        LET c == closeRets[k] IN
        /\ (c.ret = NilErr) <=> (c.inner = NilErr)
        /\ c.inner # NilErr => ErrorsIs(c.ret, c.inner)
        /\ (gen = "chat" /\ c.inner # NilErr) =>
              c.ret = Wrap("error closing stream", c.inner)
        /\ IsPrefix(c.seen, results)

\* Close failed after an object had been returned, and was called again.
C12_Witness ==
    /\ gen = "chat"
    /\ Len(closeRets) = 2
    /\ closeRets[1].inner = ErrCloseFailed
    /\ closeRets[1].ret # NilErr
    /\ closeRets[2].inner = NilErr
    /\ \E k \in 1..Len(closeRets[1].seen) : closeRets[1].seen[k].obj # <<>>

\* C13: a Next call whose read of the body fails with an error other than
\* end-of-data returns on that read, with a nil object and an error that
\* wraps the read error; the error is neither the completion signal nor the
\* abnormal-end error.
C13_ReadErrorWrapped ==
    \A k \in 1..Len(readFails) :
        LET f == readFails[k] IN
        /\ f.at <= Len(results)
        /\ results[f.at].obj = <<>>
        /\ results[f.at].err # NilErr
        /\ ErrorsIs(results[f.at].err, f.cause)
        /\ results[f.at].err[1].msg = ReadNextMsg
        /\ results[f.at] # Complete(gen)
        /\ ~ErrorsIs(results[f.at].err, ErrStreamDone)
        /\ ~ErrorsIs(results[f.at].err, ErrStreamEOF)

\* A read was cancelled in the middle of a frame; the next call returned the
\* frame's object.
C13_Witness ==
    /\ gen = "chat"
    /\ Len(readFails) = 1
    /\ readFails[1].cause = ErrCanceled
    /\ readFails[1].at = 1
    /\ Len(results) >= 2
    /\ results[2].obj # <<>>

\* C14: the handle is made without reading (no byte read, empty buffer);
\* afterwards the body is read (bytes taken, end-of-data met, a read failing)
\* only in a step of a Next call in progress, a Close call reads nothing and
\* leaves the buffer alone, and results are returned only by a Next call in
\* progress, one result with at most one object for each call.
C14_PullOnly ==
    /\ (pos = 0 /\ buf = <<>> /\ ~eof /\ results = <<>> /\ pc = "idle")
    /\ [][/\ (pos' # pos \/ eof' # eof \/ readFails' # readFails \/ buf' # buf)
               => pc = "next"
          /\ closeRets' # closeRets
               => (pos' = pos /\ eof' = eof /\ buf' = buf /\ results' = results)
          /\ results' # results
               => /\ pc = "next" /\ pc' = "idle"
                  /\ Len(results') = Len(results) + 1
                  /\ SubSeq(results', 1, Len(results)) = results
                  /\ Len(results'[Len(results')].obj) <= 1]_vars

\* The stream was closed with part of the body unread, after a Next call.
C14_Witness ==
    /\ pc = "idle"
    /\ closeRets # <<>>
    /\ results # <<>>
    /\ 0 < pos
    /\ pos < Len(wire)
    /\ ~eof

\* ------------------------------------------------------ a source that waits
\* The source has delivered the whole of frame k, its blank line included.
Delivered(k) == k <= Len(frames) /\ pos >= Len(WireOf(SubSeq(frames, 1, k)))

\* A Next call is in progress and the frame it is to return has been delivered.
Pending ==
    /\ pc = "next"
    /\ Len(results) = Len(emitted)
    /\ Delivered(Len(emitted) + 1)

\* C15: a Next call in progress, once the source has delivered the whole of
\* the next frame, returns that frame's result without another read and
\* without the source ending: its next step reads nothing and returns what
\* the frame calls for, and the step is taken even if the source stays
\* silent for ever.
C15_ReturnsWithoutSourceEnd ==
    /\ [][Pending =>
            /\ pos' = pos
            /\ eof' = eof
            /\ pc' = "idle"
            /\ Len(results') = Len(results) + 1
            /\ Matches(gen, results'[Len(results')], frames[Len(results')])]_vars
    /\ Pending ~> (pc = "idle")

\* The first frame is delivered, the source is open and has more to send.
C15_Witness ==
    /\ Pending
    /\ ~eof
    /\ pos < Len(wire)
    /\ Class(frames[Len(emitted) + 1]) = "object"

\* ------------------------------------------------------- the HTTP clients
\* gen tells the package of the call: "chat" is a service of pkg/chat over
\* service.Client, "openai" is the HTTPClient of the root package.  In a
\* client call wire is the body of the doer's response, pos the bytes of it
\* that were read and closerCalls the calls of its Close method.
StatusOK == 200

StatusCodes == {199, StatusOK, 201, 299, 300, 404, 500}

\* reqErr := errors.New("oops"), the error of the doer
ErrDoer == <<Layer("oops", <<>>)>>

DoerErrors == {NilErr, ErrDoer}

\* The response bodies: none, a JSON object, and text that is no JSON.
ClientBodies == {<<>>, ObjA, NotValidJson}

\* What v of Client.Do may be: nil, an io.Writer, or a pointer to decode into.
Targets == {"nil", "writer", "json"}

\* API keys; <<>> is the empty string.
KeyDefault == <<"d", "k">>

KeyRequest == <<"r", "k">>

KeyOther == <<"o", "k">>

ClientKeys == {<<>>, KeyDefault}

RequestKeys == {<<>>, KeyRequest, KeyOther}

\* fmt.Sprintf("Bearer %s", key)
Bearer(key) == <<"B", "e", "a", "r", "e", "r", " ">> \o key

\* The options WithAPIKey(k) of a call, applied in order to req.apiKey:
\* r.apiKey = apiKey.
RECURSIVE ApplyOpts(_, _)
ApplyOpts(opts, apiKey) ==
    IF opts = <<>> THEN apiKey ELSE ApplyOpts(Tail(opts), opts[1])

\* service.WithAPIKey that sets the header also for an empty key.
WithAPIKey_SetsEmpty(key, auth) == Bearer(key)

\* service.WithAPIKey(key)(r): the Authorization header of r afterwards.
WithAPIKey(key, auth) == IF key # <<>> THEN Bearer(key) ELSE auth

\* Client.NewRequestWithContext(..., service.WithAPIKey(apiKey)): the
\* Authorization header of the request.
NewRequestAuth(ckey, apiKey) == WithAPIKey(apiKey, Bearer(ckey))

\* HTTPClient.DoChatCompletion: the Authorization header of the request.
LegacyAuth(hkey, apiKey) == Bearer(IF apiKey # <<>> THEN apiKey ELSE hkey)

RequestAuth(g, ckey, apiKey) ==
    IF g = "chat" THEN NewRequestAuth(ckey, apiKey) ELSE LegacyAuth(ckey, apiKey)

\* The errors of an unexpected status: msg names the type errors.As finds,
\* quote holds the fields Actual and Expected.
UnexpectedStatusCodeError(actual) ==
    <<Layer("service.UnexpectedStatusCodeError", <<actual, StatusOK>>)>>

ErrUnexpectedStatusCode(actual) ==
    <<Layer("openai.ErrUnexpectedStatusCode", <<actual, StatusOK>>)>>

\* The *http.Response of the doer.
Response(status, body) == [status |-> status, body |-> body]

\* What a client call returns and does to the body: ret is <<>> for nil.
Out(ret, err, closes, read) ==
    [ret |-> ret, err |-> err, closes |-> closes, read |-> read]

\* json.NewDecoder(resp.Body).Decode(v), io.EOF counting as no error.
DecodeBody(body) ==
    IF body = <<>> THEN NilErr ELSE JsonUnmarshal(body, ZeroObject).err

\* Client.Do formatting the doer's error without wrapping it.
ClientDo_DropDoerError(doerErr, status, v, body) ==
    IF doerErr # NilErr
    THEN Out(<<>>, Wrap("failed to perform request", NilErr), 0, 0)
    ELSE Out(<<Response(status, body)>>, NilErr, 0, 0)

\* Client.Do that closes the body only after it has read it.
ClientDo_LeaksOnBadStatus(doerErr, status, v, body) ==
    IF doerErr # NilErr
    THEN Out(<<>>, Wrap("failed to perform request", doerErr), 0, 0)
    ELSE IF ~(200 <= status /\ status <= 299)
    THEN Out(<<Response(status, body)>>, UnexpectedStatusCodeError(status), 0, 0)
    ELSE IF v = "nil" THEN Out(<<Response(status, body)>>, NilErr, 0, 0)
    ELSE IF v = "writer"
    THEN Out(<<Response(status, body)>>, NilErr, 1, Len(body))
    ELSE Out(<<Response(status, body)>>, DecodeBody(body), 1, Len(body))

\* func (c *Client) Do(req *http.Request, v any) (*http.Response, error)
ClientDo(doerErr, status, v, body) ==
    IF doerErr # NilErr
    THEN Out(<<>>, Wrap("failed to perform request", doerErr), 0, 0)
    ELSE IF ~(200 <= status /\ status <= 299)
    THEN Out(<<Response(status, body)>>, UnexpectedStatusCodeError(status),
             IF v # "nil" THEN 1 ELSE 0, 0)
    ELSE IF v = "nil" THEN Out(<<Response(status, body)>>, NilErr, 0, 0)
    ELSE IF v = "writer"
    THEN Out(<<Response(status, body)>>, NilErr, 1, Len(body))
    ELSE Out(<<Response(status, body)>>, DecodeBody(body), 1, Len(body))

\* CreateCompletion after h.Client.Do(httpReq, &resp) returned d.
CompletionFrom(d) ==
    IF d.err # NilErr
    THEN [d EXCEPT !.ret = <<>>,
                   !.err = Wrap("error performing HTTP request", d.err)]
    ELSE [d EXCEPT !.ret = <<"completion">>]

\* func (h *Service) CreateCompletion(...)
CreateCompletion(doerErr, status, body) ==
    CompletionFrom(ClientDo(doerErr, status, "json", body))

\* StreamingFrom that makes a handle of whatever response came back.
StreamingFrom_IgnoresError(d) ==
    IF d.ret = <<>>
    THEN [d EXCEPT !.err = Wrap("error performing HTTP request", d.err)]
    ELSE [d EXCEPT !.ret = <<"handle">>, !.err = NilErr]

\* CreateStreamingCompletion after h.Client.Do(httpReq, nil) returned d.
StreamingFrom(d) ==
    IF d.err # NilErr
    THEN [d EXCEPT !.ret = <<>>,
                   !.err = Wrap("error performing HTTP request", d.err)]
    ELSE [d EXCEPT !.ret = <<"handle">>]

\* func (h *Service) CreateStreamingCompletion(...)
CreateStreamingCompletion(doerErr, status, body) ==
    StreamingFrom(ClientDo(doerErr, status, "nil", body))

\* DoChatCompletion that takes every status from 200 to 299 for a success.
DoChatCompletion_Accepts2xx(doerErr, status, body) ==
    IF doerErr # NilErr
    THEN Out(<<>>, Wrap("error performing HTTP request", doerErr), 0, 0)
    ELSE IF ~(200 <= status /\ status <= 299)
    THEN Out(<<>>, ErrUnexpectedStatusCode(status), 0, 0)
    ELSE Out(<<Response(status, body)>>, NilErr, 0, 0)

\* func (h *HTTPClient) DoChatCompletion(...)
DoChatCompletion(doerErr, status, body) ==
    IF doerErr # NilErr
    THEN Out(<<>>, Wrap("error performing HTTP request", doerErr), 0, 0)
    ELSE IF status # StatusOK
    THEN Out(<<>>, ErrUnexpectedStatusCode(status), 0, 0)
    ELSE Out(<<Response(status, body)>>, NilErr, 0, 0)

\* CreateStreamingChatCompletion after h.DoChatCompletion returned d.
LegacyStreamingFrom(d) ==
    IF d.err # NilErr THEN [d EXCEPT !.ret = <<>>]
    ELSE [d EXCEPT !.ret = <<"handle">>]

\* func (h *HTTPClient) CreateStreamingChatCompletion(...)
CreateStreamingChatCompletion(doerErr, status, body) ==
    LegacyStreamingFrom(DoChatCompletion(doerErr, status, body))

MaxOpts == 2

\* A client, the options of one call, and what the doer will answer.
ClientInit ==
    /\ gen \in Generations
    /\ frames = <<>>
    /\ wire \in ClientBodies
    /\ pos = 0
    /\ eof = FALSE
    /\ buf = <<>>
    /\ pc = "idle"
    /\ results = <<>>
    /\ emitted = <<>>
    /\ decodes = <<>>
    /\ splitDelim = FALSE
    /\ closerCalls = 0
    /\ closeRets = <<>>
    /\ readFails = <<>>
    /\ \E key \in ClientKeys, doerErr \in DoerErrors, status \in StatusCodes,
          v \in Targets :
        \E opts \in UNION {[1..n -> RequestKeys] : n \in 0..MaxOpts} :
            http = [op |-> "none", key |-> key, opts |-> opts,
                    doerErr |-> doerErr, status |-> status, v |-> v,
                    ret |-> <<>>, err |-> NilErr, auth |-> <<>>]

\* The call op is made and returns o; the doer saw a request with the
\* Authorization header auth.
Returned(op, o, auth) ==
    /\ http' = [http EXCEPT !.op = op, !.ret = o.ret, !.err = o.err,
                            !.auth = auth]
    /\ closerCalls' = closerCalls + o.closes
    /\ pos' = pos + o.read
    /\ UNCHANGED <<gen, frames, wire, eof, buf, pc, results, emitted, decodes,
                   splitDelim, closeRets, readFails>>

\* The header of the request of the call at hand.
AuthOfCall == RequestAuth(gen, http.key, ApplyOpts(http.opts, <<>>))

CallClientDo ==
    /\ http.op = "none"
    /\ gen = "chat"
    /\ Returned("Do", ClientDo(http.doerErr, http.status, http.v, wire),
                AuthOfCall)

CallCreateCompletion ==
    /\ http.op = "none"
    /\ gen = "chat"
    /\ Returned("CreateCompletion",
                CreateCompletion(http.doerErr, http.status, wire), AuthOfCall)

CallCreateStreamingCompletion ==
    /\ http.op = "none"
    /\ gen = "chat"
    /\ Returned("CreateStreamingCompletion",
                CreateStreamingCompletion(http.doerErr, http.status, wire),
                AuthOfCall)

CallDoChatCompletion ==
    /\ http.op = "none"
    /\ gen = "openai"
    /\ Returned("DoChatCompletion",
                DoChatCompletion(http.doerErr, http.status, wire), AuthOfCall)

CallCreateStreamingChatCompletion ==
    /\ http.op = "none"
    /\ gen = "openai"
    /\ Returned("CreateStreamingChatCompletion",
                CreateStreamingChatCompletion(http.doerErr, http.status, wire),
                AuthOfCall)

ClientNext ==
    \/ CallClientDo
    \/ CallCreateCompletion
    \/ CallCreateStreamingCompletion
    \/ CallDoChatCompletion
    \/ CallCreateStreamingChatCompletion

ClientSpec == ClientInit /\ [][ClientNext]_vars

\* errors.As(err, &target) for a target of the error type named typ: the
\* layer found, or <<>>.
ErrorsAs(err, typ) ==
    IF \E i \in 1..Len(err) : err[i].msg = typ
    THEN <<err[CHOOSE i \in 1..Len(err) : err[i].msg = typ]>>
    ELSE <<>>

Success(status) == 200 <= status /\ status <= 299

\* C16: CreateStreamingCompletion returns a handle only when the doer
\* answered with a status from 200 to 299, and then with a nil error; for any
\* other status it returns a nil handle and an error in which errors.As finds
\* an UnexpectedStatusCodeError whose Actual is that status; in both cases no
\* byte of the body has been read when it returns.
C16_HandleOnlyOnSuccess ==
    http.op = "CreateStreamingCompletion" =>
        /\ pos = 0
        /\ http.ret # <<>> => (http.doerErr = NilErr /\ Success(http.status))
        /\ (http.doerErr = NilErr /\ Success(http.status)) =>
              (http.ret = <<"handle">> /\ http.err = NilErr)
        /\ (http.doerErr = NilErr /\ ~Success(http.status)) =>
              /\ http.ret = <<>>
              /\ ErrorsAs(http.err, "service.UnexpectedStatusCodeError") # <<>>
              /\ ErrorsAs(http.err, "service.UnexpectedStatusCodeError")[1].quote[1]
                    = http.status

\* The server answered 404 with a body.
C16_Witness ==
    /\ http.op = "CreateStreamingCompletion"
    /\ http.doerErr = NilErr
    /\ http.status = 404
    /\ wire # <<>>
    /\ http.ret = <<>>
    /\ http.err # NilErr

\* C17: when the doer answers, DoChatCompletion returns a nil response and an
\* ErrUnexpectedStatusCode whose Actual is the status for every status other
\* than 200 (201 and 299 included), and for 200 the doer's response as it is,
\* its body unread and open, with a nil error.
C17_OnlyStatusOK ==
    (http.op = "DoChatCompletion" /\ http.doerErr = NilErr) =>
        /\ http.status # StatusOK =>
              /\ http.ret = <<>>
              /\ http.err = ErrUnexpectedStatusCode(http.status)
              /\ ErrorsAs(http.err, "openai.ErrUnexpectedStatusCode")[1].quote[1]
                    = http.status
        /\ http.status = StatusOK =>
              /\ http.ret = <<Response(http.status, wire)>>
              /\ http.err = NilErr
              /\ pos = 0
              /\ closerCalls = 0

\* The server answered 201: a success for service.Client, not for this call.
C17_Witness ==
    /\ http.op = "DoChatCompletion"
    /\ http.doerErr = NilErr
    /\ http.status = 201
    /\ http.ret = <<>>
    /\ http.err # NilErr

\* C18: when the doer returns an error, each client call (Client.Do,
\* CreateCompletion and CreateStreamingCompletion built on it,
\* DoChatCompletion and CreateStreamingChatCompletion built on it) returns nil
\* and an error in which errors.Is finds the doer's error.
C18_DoerErrorWrapped ==
    (http.op # "none" /\ http.doerErr # NilErr) =>
        /\ http.ret = <<>>
        /\ http.err # NilErr
        /\ ErrorsIs(http.err, http.doerErr)

\* The doer failed under CreateStreamingCompletion: its error comes back
\* under the messages of CreateStreamingCompletion and of Client.Do.
C18_Witness ==
    /\ http.op = "CreateStreamingCompletion"
    /\ http.doerErr = ErrDoer
    /\ http.ret = <<>>
    /\ http.err = Wrap("error performing HTTP request",
                       Wrap("failed to perform request", ErrDoer))

\* C19: Client.Do called with a nil v has not closed the response body when
\* it returns, whatever the doer answered; called with a non-nil v, and the
\* doer having returned a response, it has closed the body (once) when it
\* returns, for a bad status, a decode error and a success alike.  So
\* CreateStreamingCompletion leaves the body open and CreateCompletion
\* closes it.
C19_BodyOwnership ==
    /\ http.op = "Do" =>
        /\ http.v = "nil" => closerCalls = 0
        /\ (http.v # "nil" /\ http.doerErr = NilErr) => closerCalls = 1
        /\ http.doerErr # NilErr => closerCalls = 0
    /\ http.op = "CreateStreamingCompletion" => closerCalls = 0
    /\ (http.op = "CreateCompletion" /\ http.doerErr = NilErr) => closerCalls = 1

\* Do was given a pointer to decode into and the body was no JSON.
C19_Witness ==
    /\ http.op = "Do"
    /\ http.v = "json"
    /\ http.doerErr = NilErr
    /\ Success(http.status)
    /\ wire = NotValidJson
    /\ http.err # NilErr
    /\ closerCalls = 1

\* The per-request API key of a call: the key of its last WithAPIKey option,
\* the empty string when it has none.
RequestKeyOf(opts) == IF opts = <<>> THEN <<>> ELSE opts[Len(opts)]

\* C20: the request the doer receives carries the Authorization header
\* "Bearer <key>", where <key> is the per-request key when that is not empty
\* and the client's key otherwise: when no per-request key was given and when
\* it is the empty string.
C20_Authorization ==
    http.op # "none" =>
        http.auth = Bearer(IF RequestKeyOf(http.opts) # <<>>
                           THEN RequestKeyOf(http.opts)
                           ELSE http.key)

\* A call of package chat with WithAPIKey(""): the client's key is sent.
C20_Witness ==
    /\ gen = "chat"
    /\ http.op = "CreateStreamingCompletion"
    /\ http.key = KeyDefault
    /\ http.opts = << <<>> >>
    /\ http.auth = Bearer(KeyDefault)

\* ===================================================== data types and JSON
\* The request and response types of the chat packages, their accessors and
\* their JSON forms.  encoding/json is followed on the types it meets here:
\* strings, integers, pointers, slices, structs with field tags,
\* json.RawMessage and map[string]string.

\* Bounds of the data model.
MaxChoices == 2
MaxMessageOpts == 2
MaxClientOpts == 2

BACKSLASH == "\\"

\* A scanned JSON value: kind, the text of a string, the number, the members
\* of an object or elements of an array in order (elements have an empty
\* key), and raw, the bytes of the value itself.
JNode(n, t, str, num, kids, raw) ==
    [ok |-> TRUE, next |-> n, t |-> t, str |-> str, num |-> num,
     kids |-> kids, raw |-> raw]

JBad(i) ==
    [ok |-> FALSE, next |-> i, t |-> "invalid", str |-> <<>>, num |-> 0,
     kids |-> <<>>, raw |-> <<>>]

\* Index of the quote that closes a string whose content starts at i, or 0.
RECURSIVE StringEnd(_, _)
StringEnd(s, i) ==
    IF i > Len(s) THEN 0
    ELSE IF s[i] = QUOTE THEN i
    ELSE IF s[i] = BACKSLASH
        THEN IF i + 1 <= Len(s) /\ s[i + 1] \in {QUOTE, BACKSLASH}
             THEN StringEnd(s, i + 2)
             ELSE 0
    ELSE StringEnd(s, i + 1)

\* The text of a string literal's content: \" and \\ are the escapes that
\* the encoder writes for the characters of the model.
RECURSIVE Unquote(_)
Unquote(t) ==
    IF t = <<>> THEN <<>>
    ELSE IF t[1] = BACKSLASH THEN <<t[2]>> \o Unquote(SubSeq(t, 3, Len(t)))
    ELSE <<t[1]>> \o Unquote(Tail(t))

\* The content of a string literal: the inverse of Unquote.
RECURSIVE Quote(_)
Quote(t) ==
    IF t = <<>> THEN <<>>
    ELSE IF t[1] \in {QUOTE, BACKSLASH} THEN <<BACKSLASH, t[1]>> \o Quote(Tail(t))
    ELSE <<t[1]>> \o Quote(Tail(t))

\* The string literal that starts at i and whose closing quote is at j.
ScanStringTo(s, i, j) ==
    IF j = 0 THEN JBad(Len(s) + 1)
    ELSE JNode(j + 1, "string", Unquote(SubSeq(s, i + 1, j - 1)), 0, <<>>,
               SubSeq(s, i, j))

ScanString(s, i) == ScanStringTo(s, i, StringEnd(s, i + 1))

DigitValue(c) ==
    CASE c = "0" -> 0 [] c = "1" -> 1 [] c = "2" -> 2 [] c = "3" -> 3
      [] c = "4" -> 4 [] c = "5" -> 5 [] c = "6" -> 6 [] c = "7" -> 7
      [] c = "8" -> 8 [] c = "9" -> 9

DigitChar(d) == <<"0", "1", "2", "3", "4", "5", "6", "7", "8", "9">>[d + 1]

\* strconv.Atoi of a text of digits, and strconv.Itoa.
RECURSIVE Atoi(_)
Atoi(t) ==
    IF t = <<>> THEN 0
    ELSE Atoi(SubSeq(t, 1, Len(t) - 1)) * 10 + DigitValue(t[Len(t)])

RECURSIVE Itoa(_)
Itoa(n) ==
    IF n < 0 THEN <<"-">> \o Itoa(0 - n)
    ELSE IF n < 10 THEN <<DigitChar(n)>>
    ELSE Itoa(n \div 10) \o <<DigitChar(n % 10)>>

\* An integer literal whose digits start at d and end before e; i is the
\* index of its first character (the sign, if there is one).
ScanNumberTo(s, i, d, e) ==
    IF e = d THEN JBad(d)
    ELSE IF s[d] = "0" /\ e > d + 1 THEN JBad(d + 1)
    ELSE JNode(e, "number", <<>>,
               IF i = d THEN Atoi(SubSeq(s, d, e - 1))
               ELSE 0 - Atoi(SubSeq(s, d, e - 1)),
               <<>>, SubSeq(s, i, e - 1))

ScanNumber(s, i) ==
    IF s[i] = "-" THEN ScanNumberTo(s, i, i + 1, DigitsEnd(s, i + 1))
    ELSE ScanNumberTo(s, i, i, DigitsEnd(s, i))

ScanLiteral(s, i, lit, t) ==
    JNode(i + Len(lit), t, <<>>, 0, <<>>, lit)

RECURSIVE Scan(_, _)
RECURSIVE ScanMembers(_, _, _, _)
RECURSIVE ScanElements(_, _, _, _)

\* After a member of the object that starts at st; e is the index of the
\* next character that is not white space.
MemberEnd(s, st, e, acc) ==
    IF e > Len(s) THEN JBad(e)
    ELSE IF s[e] = "}"
        THEN JNode(e + 1, "object", <<>>, 0, acc, SubSeq(s, st, e))
    ELSE IF s[e] = "," THEN ScanMembers(s, st, e + 1, acc)
    ELSE JBad(e)

MemberValue(s, st, k, v, acc) ==
    IF ~v.ok THEN v
    ELSE MemberEnd(s, st, SkipWS(s, v.next), Append(acc, [k |-> k.str, v |-> v]))

MemberColon(s, st, k, c, acc) ==
    IF c > Len(s) \/ s[c] # ":" THEN JBad(c)
    ELSE MemberValue(s, st, k, Scan(s, c + 1), acc)

MemberKey(s, st, k, acc) ==
    IF ~k.ok THEN k ELSE MemberColon(s, st, k, SkipWS(s, k.next), acc)

ScanMembersAt(s, st, i, acc) ==
    IF i > Len(s) \/ s[i] # QUOTE THEN JBad(i)
    ELSE MemberKey(s, st, ScanString(s, i), acc)

ScanMembers(s, st, i0, acc) == ScanMembersAt(s, st, SkipWS(s, i0), acc)

ElementEnd(s, st, e, acc) ==
    IF e > Len(s) THEN JBad(e)
    ELSE IF s[e] = "]"
        THEN JNode(e + 1, "array", <<>>, 0, acc, SubSeq(s, st, e))
    ELSE IF s[e] = "," THEN ScanElements(s, st, e + 1, acc)
    ELSE JBad(e)

ElementValue(s, st, v, acc) ==
    IF ~v.ok THEN v
    ELSE ElementEnd(s, st, SkipWS(s, v.next), Append(acc, [k |-> <<>>, v |-> v]))

ScanElements(s, st, i0, acc) == ElementValue(s, st, Scan(s, i0), acc)

\* j is the index of the first character after the opening brace or bracket
\* at i that is not white space.
ScanObject(s, i, j) ==
    IF j <= Len(s) /\ s[j] = "}"
    THEN JNode(j + 1, "object", <<>>, 0, <<>>, SubSeq(s, i, j))
    ELSE ScanMembers(s, i, j, <<>>)

ScanArray(s, i, j) ==
    IF j <= Len(s) /\ s[j] = "]"
    THEN JNode(j + 1, "array", <<>>, 0, <<>>, SubSeq(s, i, j))
    ELSE ScanElements(s, i, j, <<>>)

ScanAt(s, i) ==
    IF i > Len(s) THEN JBad(i)
    ELSE IF s[i] = "{" THEN ScanObject(s, i, SkipWS(s, i + 1))
    ELSE IF s[i] = "[" THEN ScanArray(s, i, SkipWS(s, i + 1))
    ELSE IF s[i] = QUOTE THEN ScanString(s, i)
    ELSE IF s[i] \in Digits \cup {"-"} THEN ScanNumber(s, i)
    ELSE IF HasPrefixAt(s, i, <<"n", "u", "l", "l">>)
        THEN ScanLiteral(s, i, <<"n", "u", "l", "l">>, "null")
    ELSE IF HasPrefixAt(s, i, <<"t", "r", "u", "e">>)
        THEN ScanLiteral(s, i, <<"t", "r", "u", "e">>, "bool")
    ELSE IF HasPrefixAt(s, i, <<"f", "a", "l", "s", "e">>)
        THEN ScanLiteral(s, i, <<"f", "a", "l", "s", "e">>, "bool")
    ELSE JBad(i)

Scan(s, i0) == ScanAt(s, SkipWS(s, i0))

\* The value of a whole JSON text: checkValid, then the value.
ScanTextEnd(data, p, e) ==
    IF ~p.ok THEN p ELSE IF e <= Len(data) THEN JBad(e) ELSE p

ScanTextOf(data, p) ==
    ScanTextEnd(data, p, IF p.ok THEN SkipWS(data, p.next) ELSE 0)

ScanText(data) == ScanTextOf(data, Scan(data, 1))

\* json.Compact: the text without the white space outside its strings.
RECURSIVE CompactFrom(_, _, _)
CompactFrom(s, i, inString) ==
    IF i > Len(s) THEN <<>>
    ELSE IF inString /\ s[i] = BACKSLASH /\ i < Len(s)
        THEN <<s[i], s[i + 1]>> \o CompactFrom(s, i + 2, TRUE)
    ELSE IF s[i] = QUOTE THEN <<s[i]>> \o CompactFrom(s, i + 1, ~inString)
    ELSE IF ~inString /\ s[i] \in WhiteSpace THEN CompactFrom(s, i + 1, FALSE)
    ELSE <<s[i]>> \o CompactFrom(s, i + 1, inString)

Compact(s) == CompactFrom(s, 1, FALSE)

\* ------------------------------------------------------------ Go values
\* A pointer is nil or points to one value; a slice is nil or holds elements.
Nil == <<>>

Ptr(x) == <<x>>

NilSlice == [isnil |-> TRUE, elems |-> <<>>]

SliceOf(elems) == [isnil |-> FALSE, elems |-> elems]

\* Types, as encoding/json sees them by reflection.
TString == [k |-> "string"]

TInt == [k |-> "int"]

TRawMessage == [k |-> "raw"]

TMapStringString == [k |-> "map"]

TPtr(T) == [k |-> "ptr", elem |-> T]

TSlice(T) == [k |-> "slice", elem |-> T]

TStruct(fields) == [k |-> "struct", fields |-> fields]

\* A struct field with its `json:"key"` tag.
Field(name, key, T) == [name |-> name, key |-> key, typ |-> T, omitempty |-> FALSE]

\* A struct field tagged `json:"key,omitempty"`.
FieldOmitEmpty(name, key, T) ==
    [name |-> name, key |-> key, typ |-> T, omitempty |-> TRUE]

RECURSIVE Zero(_)
RECURSIVE ZeroFields(_)

\* The zero value of a type.
Zero(T) ==
    CASE T.k = "string" -> <<>>
      [] T.k = "int" -> 0
      [] T.k = "raw" -> Nil
      [] T.k = "ptr" -> Nil
      [] T.k = "slice" -> NilSlice
      [] T.k = "map" -> <<>>
      [] T.k = "struct" -> ZeroFields(T.fields)

ZeroFields(fs) ==
    IF Len(fs) = 1 THEN fs[1].name :> Zero(fs[1].typ)
    ELSE (fs[1].name :> Zero(fs[1].typ)) @@ ZeroFields(Tail(fs))

\* m[key] of a map[string]string kept as its entries in insertion order.
RECURSIVE MapIndex(_, _)
MapIndex(m, key) ==
    IF m = <<>> THEN <<>>
    ELSE IF m[Len(m)].k = key THEN m[Len(m)].v
    ELSE MapIndex(SubSeq(m, 1, Len(m) - 1), key)

\* ----------------------------------------------------------- json.Marshal
Encoded(out) == [err |-> NilErr, out |-> out]

EncodeFailed(err) == [err |-> err, out |-> <<>>]

NullText == <<"n", "u", "l", "l">>

\* RawMessage.MarshalJSON returns the bytes, "null" for nil; the encoder
\* checks and compacts what a Marshaler returns.  p is the scan of the bytes.
EncodeRawOf(raw, p) ==
    IF p.ok THEN Encoded(Compact(raw))
    ELSE EncodeFailed(Wrap("json: error calling MarshalJSON for type json.RawMessage",
                           SyntaxError(raw, p.next)))

EncodeRaw(v) ==
    IF v = Nil THEN Encoded(NullText) ELSE EncodeRawOf(v[1], ScanText(v[1]))

\* omitempty leaves out false, 0, a nil pointer, and an empty slice or string.
IsEmptyValue(T, v) ==
    CASE T.k = "string" -> v = <<>>
      [] T.k = "int" -> v = 0
      [] T.k = "raw" -> v = Nil \/ v = Ptr(<<>>)
      [] T.k = "ptr" -> v = Nil
      [] T.k = "slice" -> v.elems = <<>>
      [] T.k = "map" -> v = <<>>
      [] T.k = "struct" -> FALSE

\* The members written so far, followed by "key":value.
AddMember(acc, key, e) ==
    IF e.err # NilErr THEN EncodeFailed(e.err)
    ELSE Encoded(acc.out \o (IF acc.out = <<>> THEN <<>> ELSE <<",">>)
                 \o <<QUOTE>> \o Quote(key) \o <<QUOTE, ":">> \o e.out)

AddElement(acc, e) ==
    IF e.err # NilErr THEN EncodeFailed(e.err)
    ELSE Encoded(acc.out \o (IF acc.out = <<>> THEN <<>> ELSE <<",">>) \o e.out)

Enclosed(open, acc, close) ==
    IF acc.err # NilErr THEN acc ELSE Encoded(<<open>> \o acc.out \o <<close>>)

RECURSIVE Encode(_, _)
RECURSIVE EncodeFields(_, _, _)
RECURSIVE EncodeElems(_, _, _)
RECURSIVE EncodeEntries(_, _)

EncodeFields(fs, v, acc) ==
    IF fs = <<>> \/ acc.err # NilErr THEN acc
    ELSE IF fs[1].omitempty /\ IsEmptyValue(fs[1].typ, v[fs[1].name])
        THEN EncodeFields(Tail(fs), v, acc)
    ELSE EncodeFields(Tail(fs), v,
                      AddMember(acc, fs[1].key, Encode(fs[1].typ, v[fs[1].name])))

EncodeElems(T, es, acc) ==
    IF es = <<>> \/ acc.err # NilErr THEN acc
    ELSE EncodeElems(T, Tail(es), AddElement(acc, Encode(T, es[1])))

EncodeEntries(m, acc) ==
    IF m = <<>> THEN acc
    ELSE EncodeEntries(Tail(m), AddMember(acc, m[1].k, Encode(TString, m[1].v)))

\* json.Marshal(v) for v of type T.
Encode(T, v) ==
    CASE T.k = "string" -> Encoded(<<QUOTE>> \o Quote(v) \o <<QUOTE>>)
      [] T.k = "int" -> Encoded(Itoa(v))
      [] T.k = "raw" -> EncodeRaw(v)
      [] T.k = "ptr" -> IF v = Nil THEN Encoded(NullText) ELSE Encode(T.elem, v[1])
      [] T.k = "slice" ->
            IF v.isnil THEN Encoded(NullText)
            ELSE Enclosed("[", EncodeElems(T.elem, v.elems, Encoded(<<>>)), "]")
      [] T.k = "map" -> Enclosed("{", EncodeEntries(v, Encoded(<<>>)), "}")
      [] T.k = "struct" -> Enclosed("{", EncodeFields(T.fields, v, Encoded(<<>>)), "}")

\* --------------------------------------------------------- json.Unmarshal
DecodedAs(v) == [err |-> NilErr, v |-> v]

DecodeFailed(err, v) == [err |-> err, v |-> v]

\* Index of the field that the key names, or 0.  The keys of the model are
\* in lower case, as are the tags, so the match is the exact one.
RECURSIVE FieldFor(_, _, _)
FieldFor(fs, key, i) ==
    IF i > Len(fs) THEN 0
    ELSE IF fs[i].key = key THEN i
    ELSE FieldFor(fs, key, i + 1)

\* A pointer that was allocated for the value decoded into it.
Pointing(r) == [err |-> r.err, v |-> Ptr(r.v)]

FirstError(err, r) == IF err = NilErr THEN r.err ELSE err

RECURSIVE Decode(_, _, _)
RECURSIVE DecodeFields(_, _, _, _)
RECURSIVE DecodeElems(_, _, _, _)
RECURSIVE DecodeEntries(_, _, _)

\* r is the decoding of the member kids[1] into the field called name.
DecodedMember(T, kids, cur, err, name, r) ==
    DecodeFields(T, Tail(kids), [cur EXCEPT ![name] = r.v], FirstError(err, r))

DecodeMember(T, kids, cur, err, f) ==
    IF f = 0 THEN DecodeFields(T, Tail(kids), cur, err)
    ELSE DecodedMember(T, kids, cur, err, T.fields[f].name,
                       Decode(T.fields[f].typ, kids[1].v, cur[T.fields[f].name]))

\* The members of an object into a struct: a type error is kept and the
\* decoding goes on; the first error is returned.
DecodeFields(T, kids, cur, err) ==
    IF kids = <<>> THEN DecodeFailed(err, cur)
    ELSE DecodeMember(T, kids, cur, err, FieldFor(T.fields, kids[1].k, 1))

DecodedElem(T, kids, acc, err, r) ==
    DecodeElems(T, Tail(kids), Append(acc, r.v), FirstError(err, r))

DecodeElems(T, kids, acc, err) ==
    IF kids = <<>> THEN DecodeFailed(err, SliceOf(acc))
    ELSE DecodedElem(T, kids, acc, err, Decode(T, kids[1].v, Zero(T)))

DecodedEntry(kids, acc, err, r) ==
    DecodeEntries(Tail(kids), Append(acc, [k |-> kids[1].k, v |-> r.v]),
                  FirstError(err, r))

DecodeEntries(kids, acc, err) ==
    IF kids = <<>> THEN DecodeFailed(err, acc)
    ELSE DecodedEntry(kids, acc, err, Decode(TString, kids[1].v, <<>>))

\* The scanned value n into a value of type T that holds cur.
Decode(T, n, cur) ==
    IF T.k = "raw" THEN DecodedAs(Ptr(n.raw))
    ELSE IF n.t = "null" THEN
        DecodedAs(IF T.k = "ptr" THEN Nil
                  ELSE IF T.k = "slice" THEN NilSlice
                  ELSE cur)
    ELSE CASE T.k = "string" ->
                IF n.t = "string" THEN DecodedAs(n.str)
                ELSE DecodeFailed(UnmarshalTypeError, cur)
           [] T.k = "int" ->
                IF n.t = "number" THEN DecodedAs(n.num)
                ELSE DecodeFailed(UnmarshalTypeError, cur)
           [] T.k = "ptr" ->
                Pointing(Decode(T.elem, n, IF cur = Nil THEN Zero(T.elem) ELSE cur[1]))
           [] T.k = "slice" ->
                IF n.t = "array" THEN DecodeElems(T.elem, n.kids, <<>>, NilErr)
                ELSE DecodeFailed(UnmarshalTypeError, cur)
           [] T.k = "map" ->
                IF n.t = "object" THEN DecodeEntries(n.kids, cur, NilErr)
                ELSE DecodeFailed(UnmarshalTypeError, cur)
           [] T.k = "struct" ->
                IF n.t = "object" THEN DecodeFields(T, n.kids, cur, NilErr)
                ELSE DecodeFailed(UnmarshalTypeError, cur)

\* json.Unmarshal(data, &cur) for cur of type T; p is the scan of data.
UnmarshalScanned(T, data, p, cur) ==
    IF ~p.ok THEN DecodeFailed(SyntaxError(data, p.next), cur)
    ELSE Decode(T, p, cur)

Unmarshal(T, data, cur) == UnmarshalScanned(T, data, ScanText(data), cur)

\* ------------------------------------------------------ the chat types
\* Texts of the field tags and of the values the model uses.
KeyName == <<"n", "a", "m", "e">>

KeyArguments == <<"a", "r", "g", "u", "m", "e", "n", "t", "s">>

KeyRole == <<"r", "o", "l", "e">>

KeyContent == <<"c", "o", "n", "t", "e", "n", "t">>

KeyFunctionCall == <<"f", "u", "n", "c", "t", "i", "o", "n", "_", "c", "a", "l", "l">>

KeyIndex == <<"i", "n", "d", "e", "x">>

KeyDelta == <<"d", "e", "l", "t", "a">>

KeyMessage == <<"m", "e", "s", "s", "a", "g", "e">>

KeyFinishReason == <<"f", "i", "n", "i", "s", "h", "_", "r", "e", "a", "s", "o", "n">>

KeyChoices == <<"c", "h", "o", "i", "c", "e", "s">>

KeyID == <<"i", "d">>

KeyObject == <<"o", "b", "j", "e", "c", "t">>

KeyCreated == <<"c", "r", "e", "a", "t", "e", "d">>

KeyModel == <<"m", "o", "d", "e", "l">>

KeyUsage == <<"u", "s", "a", "g", "e">>

KeyPromptTokens == <<"p", "r", "o", "m", "p", "t", "_", "t", "o", "k", "e", "n", "s">>

KeyCompletionTokens ==
    <<"c", "o", "m", "p", "l", "e", "t", "i", "o", "n", "_", "t", "o", "k", "e", "n", "s">>

KeyTotalTokens == <<"t", "o", "t", "a", "l", "_", "t", "o", "k", "e", "n", "s">>

\* type FunctionCall struct
FunctionCall ==
    TStruct(<<Field("Name", KeyName, TString),
              Field("Arguments", KeyArguments, TRawMessage)>>)

\* type Message struct
Message ==
    TStruct(<<Field("Role", KeyRole, TString),
              Field("Content", KeyContent, TPtr(TString)),
              FieldOmitEmpty("Name", KeyName, TPtr(TString)),
              FieldOmitEmpty("FunctionCall", KeyFunctionCall, TPtr(FunctionCall))>>)

\* type CompletionChoice struct
CompletionChoice ==
    TStruct(<<Field("Index", KeyIndex, TInt),
              Field("Message", KeyMessage, Message),
              Field("FinishReason", KeyFinishReason, TString)>>)

\* type Usage struct
Usage ==
    TStruct(<<Field("PromptTokens", KeyPromptTokens, TInt),
              Field("CompletionTokens", KeyCompletionTokens, TInt),
              Field("TotalTokens", KeyTotalTokens, TInt)>>)

\* type CompletionResponse struct (type ChatCompletionResponse struct in
\* package openai has the same fields and tags)
CompletionResponse ==
    TStruct(<<Field("ID", KeyID, TString),
              Field("Object", KeyObject, TString),
              Field("Created", KeyCreated, TInt),
              Field("Model", KeyModel, TString),
              Field("Choices", KeyChoices, TSlice(CompletionChoice)),
              Field("Usage", KeyUsage, Usage)>>)

\* type StreamingCompletionDelta struct
StreamingCompletionDelta ==
    TStruct(<<Field("Role", KeyRole, TString),
              Field("Content", KeyContent, TPtr(TString)),
              Field("FunctionCall", KeyFunctionCall, TPtr(FunctionCall))>>)

\* type StreamingCompletionChoice struct
StreamingCompletionChoice ==
    TStruct(<<Field("Index", KeyIndex, TInt),
              Field("Delta", KeyDelta, StreamingCompletionDelta),
              Field("FinishReason", KeyFinishReason, TPtr(TString))>>)

\* type StreamingCompletionObject struct
StreamingCompletionObject ==
    TStruct(<<Field("ID", KeyID, TString),
              Field("Object", KeyObject, TString),
              Field("Created", KeyCreated, TInt),
              Field("Model", KeyModel, TString),
              Field("Choices", KeyChoices, TSlice(StreamingCompletionChoice))>>)

\* --------------------------------------------------------------- messages
\* func WithMessageContent(content string) MessageOpt
WithMessageContent(content) == [opt |-> "content", arg |-> content]

\* func WithMessageName(name string) MessageOpt
WithMessageName(name) == [opt |-> "name", arg |-> name]

\* func WithMessageFunctionCall(functionCall FunctionCall) MessageOpt
WithMessageFunctionCall(functionCall) == [opt |-> "function_call", arg |-> functionCall]

\* opt(&m)
ApplyMessageOpt(m, o) ==
    CASE o.opt = "content" -> [m EXCEPT !.Content = Ptr(o.arg)]
      [] o.opt = "name" -> [m EXCEPT !.Name = Ptr(o.arg)]
      [] o.opt = "function_call" -> [m EXCEPT !.FunctionCall = Ptr(o.arg)]

RECURSIVE ApplyMessageOpts(_, _)
ApplyMessageOpts(m, opts) ==
    IF opts = <<>> THEN m
    ELSE ApplyMessageOpts(ApplyMessageOpt(m, opts[1]), Tail(opts))

\* func NewMessage(role string, opts ...MessageOpt) Message
NewMessage(role, opts) ==
    ApplyMessageOpts([Zero(Message) EXCEPT !.Role = role], opts)

\* -------------------------------------------------------------- accessors
\* The outcome of a call: it returns (v, ok), or it panics.
Returns(v, ok) == [panic |-> FALSE, v |-> v, ok |-> ok]

Panics == [panic |-> TRUE, v |-> <<>>, ok |-> FALSE]

\* choices[index]: an index out of range is a run-time panic.
IndexExpr(choices, index) ==
    IF index < 0 \/ index >= Len(choices.elems) THEN Panics
    ELSE Returns(choices.elems[index + 1], TRUE)

\* GetChoiceAt that lets index = len(r.Choices) through.
CompletionResponse_GetChoiceAt_OffByOne(r, index) ==
    IF index > Len(r.Choices.elems)
    THEN Returns(Zero(CompletionChoice), FALSE)
    ELSE IndexExpr(r.Choices, index)

\* GetChoiceAt that also refuses a negative index.
CompletionResponse_GetChoiceAt_Guarded(r, index) ==
    IF index < 0 \/ index >= Len(r.Choices.elems)
    THEN Returns(Zero(CompletionChoice), FALSE)
    ELSE IndexExpr(r.Choices, index)

\* func (r *CompletionResponse) GetChoiceAt(index int) (CompletionChoice, bool)
CompletionResponse_GetChoiceAt(r, index) ==
    IF index >= Len(r.Choices.elems)
    THEN Returns(Zero(CompletionChoice), FALSE)
    ELSE IndexExpr(r.Choices, index)

\* MessageContentOf without the nil check: absent content reads as "".
MessageContentOf_NoNilCheck(c) ==
    IF c.panic THEN c
    ELSE IF ~c.ok THEN Returns(<<>>, FALSE)
    ELSE IF c.v.Message.Content = Nil THEN Returns(<<>>, TRUE)
    ELSE Returns(c.v.Message.Content[1], TRUE)

\* The content of the message of the choice that GetChoiceAt gave.
MessageContentOf(c) ==
    IF c.panic THEN c
    ELSE IF ~c.ok THEN Returns(<<>>, FALSE)
    ELSE IF c.v.Message.Content = Nil THEN Returns(<<>>, FALSE)
    ELSE Returns(c.v.Message.Content[1], TRUE)

\* func (r *CompletionResponse) GetContentAt(index int) (string, bool)
CompletionResponse_GetContentAt(r, index) ==
    MessageContentOf(CompletionResponse_GetChoiceAt(r, index))

MessageFunctionCallOf(c) ==
    IF c.panic THEN c
    ELSE IF ~c.ok THEN Returns(Zero(FunctionCall), FALSE)
    ELSE IF c.v.Message.FunctionCall = Nil THEN Returns(Zero(FunctionCall), FALSE)
    ELSE Returns(c.v.Message.FunctionCall[1], TRUE)

\* func (r *CompletionResponse) GetFunctionCallAt(index int) (FunctionCall, bool)
CompletionResponse_GetFunctionCallAt(r, index) ==
    MessageFunctionCallOf(CompletionResponse_GetChoiceAt(r, index))

\* func (o *StreamingCompletionObject) GetChoiceAt(index int) (StreamingCompletionChoice, bool)
StreamingCompletionObject_GetChoiceAt(o, index) ==
    IF index >= Len(o.Choices.elems)
    THEN Returns(Zero(StreamingCompletionChoice), FALSE)
    ELSE IndexExpr(o.Choices, index)

DeltaContentOf(c) ==
    IF c.panic THEN c
    ELSE IF ~c.ok THEN Returns(<<>>, FALSE)
    ELSE IF c.v.Delta.Content = Nil THEN Returns(<<>>, FALSE)
    ELSE Returns(c.v.Delta.Content[1], TRUE)

\* func (o *StreamingCompletionObject) GetContentAt(index int) (string, bool)
StreamingCompletionObject_GetContentAt(o, index) ==
    DeltaContentOf(StreamingCompletionObject_GetChoiceAt(o, index))

DeltaFunctionCallOf(c) ==
    IF c.panic THEN c
    ELSE IF ~c.ok THEN Returns(Zero(FunctionCall), FALSE)
    ELSE IF c.v.Delta.FunctionCall = Nil THEN Returns(Zero(FunctionCall), FALSE)
    ELSE Returns(c.v.Delta.FunctionCall[1], TRUE)

\* func (o *StreamingCompletionObject) GetFunctionCallAt(index int) (FunctionCall, bool)
StreamingCompletionObject_GetFunctionCallAt(o, index) ==
    DeltaFunctionCallOf(StreamingCompletionObject_GetChoiceAt(o, index))

\* func (r *ChatCompletionResponse) GetChoiceAt(index int) (ChatCompletionChoice, bool)
\* (package openai)
ChatCompletionResponse_GetChoiceAt(r, index) ==
    IF index < 0 \/ index >= Len(r.Choices.elems)
    THEN Returns(Zero(CompletionChoice), FALSE)
    ELSE IndexExpr(r.Choices, index)

\* func (r *ChatCompletionResponse) GetContentAt(index int) (string, bool)
ChatCompletionResponse_GetContentAt(r, index) ==
    MessageContentOf(ChatCompletionResponse_GetChoiceAt(r, index))

\* func (r *ChatCompletionResponse) GetFunctionCallAt(index int) (FunctionCall, bool)
ChatCompletionResponse_GetFunctionCallAt(r, index) ==
    MessageFunctionCallOf(ChatCompletionResponse_GetChoiceAt(r, index))

ResponseTypes == {"CompletionResponse", "StreamingCompletionObject", "ChatCompletionResponse"}

GetChoiceAt(typ, r, index) ==
    CASE typ = "CompletionResponse" -> CompletionResponse_GetChoiceAt(r, index)
      [] typ = "StreamingCompletionObject" -> StreamingCompletionObject_GetChoiceAt(r, index)
      [] typ = "ChatCompletionResponse" -> ChatCompletionResponse_GetChoiceAt(r, index)

GetContentAt(typ, r, index) ==
    CASE typ = "CompletionResponse" -> CompletionResponse_GetContentAt(r, index)
      [] typ = "StreamingCompletionObject" -> StreamingCompletionObject_GetContentAt(r, index)
      [] typ = "ChatCompletionResponse" -> ChatCompletionResponse_GetContentAt(r, index)

GetFunctionCallAt(typ, r, index) ==
    CASE typ = "CompletionResponse" -> CompletionResponse_GetFunctionCallAt(r, index)
      [] typ = "StreamingCompletionObject" -> StreamingCompletionObject_GetFunctionCallAt(r, index)
      [] typ = "ChatCompletionResponse" -> ChatCompletionResponse_GetFunctionCallAt(r, index)

\* ---------------------------------------------------- functionCallSetting
\* var ErrInvalidFunctionCallSetting = errors.New("function call setting must have a value or a name")
ErrInvalidFunctionCallSetting ==
    <<Layer("function call setting must have a value or a name", <<>>)>>

\* if err != nil { return nil, fmt.Errorf(msg, err) }; return b, nil
MarshalChecked(msg, e) ==
    IF e.err # NilErr THEN EncodeFailed(Wrap(msg, e.err)) ELSE e

\* MarshalJSON in which the name wins over the value.
ChatMarshalJSON_NameWins(f) ==
    IF f.Name # <<>>
    THEN Encode(TMapStringString, <<[k |-> KeyName, v |-> f.Name]>>)
    ELSE IF f.Value # <<>> THEN Encode(TString, f.Value)
    ELSE EncodeFailed(ErrInvalidFunctionCallSetting)

\* func (f functionCallSetting) MarshalJSON() ([]byte, error)  (package chat)
ChatMarshalJSON(f) ==
    IF f.Value # <<>>
    THEN MarshalChecked("error marshaling function call setting value",
                        Encode(TString, f.Value))
    ELSE IF f.Name # <<>>
    THEN MarshalChecked("error marshaling function call setting name",
                        Encode(TMapStringString, <<[k |-> KeyName, v |-> f.Name]>>))
    ELSE EncodeFailed(ErrInvalidFunctionCallSetting)

\* func (f functionCallSetting) MarshalJSON() ([]byte, error)  (package openai)
\* The last error is made by errors.New in place, with the same text.
OpenaiMarshalJSON(f) ==
    IF f.Value # <<>>
    THEN MarshalChecked("error marshaling function call setting value",
                        Encode(TString, f.Value))
    ELSE IF f.Name # <<>>
    THEN MarshalChecked("error marshaling function call setting name",
                        Encode(TMapStringString, <<[k |-> KeyName, v |-> f.Name]>>))
    ELSE EncodeFailed(<<Layer("function call setting must have a value or a name", <<>>)>>)

MarshalJSON(g, f) == IF g = "chat" THEN ChatMarshalJSON(f) ELSE OpenaiMarshalJSON(f)

\* The second attempt of UnmarshalJSON: r is json.Unmarshal(b, &obj) for
\* var obj map[string]string, bad the error returned when it fails.
SettingFromMap(f, r, bad) ==
    IF r.err = NilErr
    THEN [err |-> NilErr, f |-> [f EXCEPT !.Name = MapIndex(r.v, KeyName)]]
    ELSE [err |-> bad, f |-> f]

\* The first attempt: r is json.Unmarshal(b, &v) for var v string.
SettingFromString(f, b, r, bad) ==
    IF r.err = NilErr
    THEN [err |-> NilErr, f |-> [f EXCEPT !.Value = r.v]]
    ELSE SettingFromMap(f, Unmarshal(TMapStringString, b, <<>>), bad)

\* func (f *functionCallSetting) UnmarshalJSON(b []byte) error  (package chat)
ChatUnmarshalJSON(f, b) ==
    SettingFromString(f, b, Unmarshal(TString, b, <<>>), ErrInvalidFunctionCallSetting)

\* func (f *functionCallSetting) UnmarshalJSON(b []byte) error  (package openai)
OpenaiUnmarshalJSON(f, b) ==
    SettingFromString(f, b, Unmarshal(TString, b, <<>>),
        <<Layer("function call setting must be a string or a map with a \"name\" key and string value",
                <<>>)>>)

UnmarshalJSON(g, f, b) ==
    IF g = "chat" THEN ChatUnmarshalJSON(f, b) ELSE OpenaiUnmarshalJSON(f, b)

\* ------------------------------------------------------------- NewClient
\* var DefaultBaseURL = &url.URL{Scheme: "https", Host: "api.openai.com", Path: "/v1"}
DefaultBaseURL == "https://api.openai.com/v1"

\* http.DefaultClient
HttpDefaultClient == "http.DefaultClient"

\* func WithKey(key string) ClientOpt
WithKey(key) == [opt |-> "key", arg |-> key]

\* func WithBaseURL(baseURL *url.URL) ClientOpt
WithBaseURL(baseURL) == [opt |-> "baseURL", arg |-> baseURL]

\* func WithDoer(doer Doer) ClientOpt
WithDoer(doer) == [opt |-> "doer", arg |-> doer]

\* opt(&c)
ApplyClientOpt(c, o) ==
    CASE o.opt = "key" -> [c EXCEPT !.key = o.arg]
      [] o.opt = "baseURL" -> [c EXCEPT !.baseURL = o.arg]
      [] o.opt = "doer" -> [c EXCEPT !.doer = o.arg]

RECURSIVE ApplyClientOpts(_, _)
ApplyClientOpts(c, opts) ==
    IF opts = <<>> THEN c
    ELSE ApplyClientOpts(ApplyClientOpt(c, opts[1]), Tail(opts))

\* func New(baseURL *url.URL, key string, doer Doer) *Service: a pointer to
\* a new Service.
ServiceNew(baseURL, key, doer) ==
    Ptr([Client |-> [baseURL |-> baseURL, key |-> key, doer |-> doer]])

\* c.common = service.New(c.baseURL, c.key, c.doer)
\* c.Chat = (*chat.Service)(c.common)
\* Embeddings is not assigned: it keeps its zero value.
WithServices(c, common) == [c EXCEPT !.common = common, !.Chat = common]

ServicesOf(c) == WithServices(c, ServiceNew(c.baseURL, c.key, c.doer))

\* func NewClient(opts ...ClientOpt) *Client
NewClient(opts) ==
    ServicesOf(ApplyClientOpts([Chat |-> Nil, Embeddings |-> Nil, key |-> "",
                                baseURL |-> DefaultBaseURL,
                                doer |-> HttpDefaultClient, common |-> Nil],
                               opts))

\* ------------------------------------------------- calls on data values
\* The values that the calls are made on.
TextUser == <<"u", "s", "e", "r">>

TextAck == <<"a", "c", "k">>

TextQuoted == <<"a", QUOTE, "b">>

TextStop == <<"s", "t", "o", "p">>

TextAuto == <<"a", "u", "t", "o">>

TextFn == <<"f", "n">>

\* {"foo": "bar"}, the arguments of the tests, with its space
ArgsSpaced ==
    <<"{", QUOTE, "f", "o", "o", QUOTE, ":", " ", QUOTE, "b", "a", "r", QUOTE, "}">>

\* {"foo":"bar"}
ArgsCompact == Compact(ArgsSpaced)

FunctionCalls ==
    {[Name |-> TextFn, Arguments |-> a] : a \in {Nil, Ptr(ArgsCompact), Ptr(ArgsSpaced)}}

MessageOpts ==
    {WithMessageContent(TextAck), WithMessageContent(<<>>), WithMessageName(TextFn)}
        \cup {WithMessageFunctionCall(fc) : fc \in FunctionCalls}

\* The messages of the choices: content only, function call only, neither,
\* and both.
Messages ==
    {NewMessage(TextUser, opts) : opts \in
        {<<WithMessageContent(TextAck)>>,
         <<WithMessageContent(TextQuoted), WithMessageName(TextFn)>>,
         <<WithMessageFunctionCall([Name |-> TextFn, Arguments |-> Ptr(ArgsCompact)])>>,
         <<WithMessageFunctionCall([Name |-> TextFn, Arguments |-> Nil])>>,
         <<WithMessageContent(<<>>),
           WithMessageFunctionCall([Name |-> TextFn, Arguments |-> Ptr(ArgsSpaced)])>>,
         <<>>}}

CompletionChoices ==
    {[Index |-> IF m.Content = Nil THEN 1 ELSE 0, Message |-> m,
      FinishReason |-> IF m.Content = Nil THEN <<>> ELSE TextStop] : m \in Messages}

StreamingCompletionChoices ==
    {[Index |-> IF m.Content = Nil THEN 1 ELSE 0,
      Delta |-> [Role |-> m.Role, Content |-> m.Content, FunctionCall |-> m.FunctionCall],
      FinishReason |-> IF m.Content = Nil THEN Nil ELSE Ptr(TextStop)] : m \in Messages}

ChoicesOf(typ) ==
    IF typ = "StreamingCompletionObject" THEN StreamingCompletionChoices
    ELSE CompletionChoices

\* Choices: a nil slice, or up to MaxChoices choices.
ChoiceSlices(typ) ==
    {NilSlice} \cup
    {SliceOf(cs) : cs \in UNION {[1..n -> ChoicesOf(typ)] : n \in 0..MaxChoices}}

TypeOf(typ) ==
    IF typ = "StreamingCompletionObject" THEN StreamingCompletionObject
    ELSE CompletionResponse

\* A response or streaming object with the given choices.
ResponseWith(typ, choices) ==
    [Zero(TypeOf(typ)) EXCEPT !.ID = <<"x">>, !.Created = 12, !.Choices = choices]

GenOf(typ) == IF typ = "ChatCompletionResponse" THEN "openai" ELSE "chat"

Indexes == (0 - 1)..(MaxChoices + 1)

SettingTexts == {<<>>, TextAuto, TextQuoted}

Settings == [Value : SettingTexts, Name : SettingTexts]

\* The inputs of UnmarshalJSON: strings, objects with and without a "name"
\* member, other values, and texts that are not JSON.
SettingInputs ==
    {Encode(TString, TextAuto).out,
     Encode(TString, TextQuoted).out,
     Encode(TString, <<>>).out,
     NullText,
     <<"5">>,
     <<"t", "r", "u", "e">>,
     <<"[", "]">>,
     <<"{", "}">>,
     <<"{">>,
     <<>>,
     Encode(TMapStringString, <<[k |-> KeyName, v |-> TextFn]>>).out,
     <<" ">> \o Encode(TMapStringString, <<[k |-> KeyName, v |-> TextFn]>>).out \o <<" ">>,
     Encode(TMapStringString, <<[k |-> KeyName, v |-> <<>>]>>).out,
     Encode(TMapStringString, <<[k |-> KeyRole, v |-> TextFn]>>).out,
     Encode(TMapStringString, <<[k |-> KeyName, v |-> TextFn], [k |-> KeyRole, v |-> TextUser]>>).out,
     Encode(TMapStringString, <<[k |-> KeyName, v |-> TextFn], [k |-> KeyName, v |-> TextAuto]>>).out,
     <<"{", QUOTE>> \o KeyName \o <<QUOTE, ":", "5", "}">>,
     <<"{", QUOTE>> \o KeyName \o <<QUOTE, ":">> \o NullText \o <<"}">>,
     <<"{", QUOTE>> \o KeyName \o <<QUOTE, ":", QUOTE, "f", QUOTE, ",", QUOTE>>
         \o KeyRole \o <<QUOTE, ":", "5", "}">>}

BaseURLOther == "https://example.test/v1"

DoerOther == "doer"

ClientOpts ==
    {WithKey("key-1"), WithKey("key-2"), WithBaseURL(BaseURLOther),
     WithDoer(DoerOther), WithDoer(HttpDefaultClient)}

\* A call not yet made, of the given kind and on the given input.
Input(kind, in) == [op |-> "none", kind |-> kind, in |-> in, out |-> <<>>]

\* Init draws one call's inputs: a response and an index, an object to
\* encode, the options of a message, a setting, a text to decode into a
\* setting, or the options of a client.
DataInit ==
    /\ gen \in Generations
    /\ frames = <<>>
    /\ wire = <<>>
    /\ pos = 0
    /\ eof = FALSE
    /\ buf = <<>>
    /\ pc = "idle"
    /\ results = <<>>
    /\ emitted = <<>>
    /\ decodes = <<>>
    /\ splitDelim = FALSE
    /\ closerCalls = 0
    /\ closeRets = <<>>
    /\ readFails = <<>>
    /\ \/ \E typ \in ResponseTypes, i \in Indexes :
            \E cs \in ChoiceSlices(typ) :
                /\ gen = GenOf(typ)
                /\ http = Input("response",
                                [typ |-> typ, r |-> ResponseWith(typ, cs), index |-> i])
       \/ \E typ \in {"CompletionResponse", "StreamingCompletionObject"} :
            \E cs \in ChoiceSlices(typ) :
                /\ gen = "chat"
                /\ http = Input("object", [typ |-> typ, r |-> ResponseWith(typ, cs)])
       \/ \E opts \in UNION {[1..n -> MessageOpts] : n \in 0..MaxMessageOpts} :
            http = Input("message", [role |-> TextUser, opts |-> opts])
       \/ \E f \in Settings : http = Input("setting", [f |-> f])
       \/ \E b \in SettingInputs : http = Input("text", [b |-> b])
       \/ \E opts \in UNION {[1..n -> ClientOpts] : n \in 0..MaxClientOpts} :
            /\ gen = "chat"
            /\ http = Input("client", [opts |-> opts])

\* The call op is made on the input at hand and gives out.
Gives(kind, op, out) ==
    /\ http.op = "none"
    /\ http.kind = kind
    /\ http' = [http EXCEPT !.op = op, !.out = out]
    /\ UNCHANGED <<gen, frames, wire, pos, eof, buf, pc, results, emitted, decodes,
                   splitDelim, closerCalls, closeRets, readFails>>

CallGetChoiceAt ==
    /\ http.kind = "response"
    /\ Gives("response", "GetChoiceAt", GetChoiceAt(http.in.typ, http.in.r, http.in.index))

CallGetContentAt ==
    /\ http.kind = "response"
    /\ Gives("response", "GetContentAt", GetContentAt(http.in.typ, http.in.r, http.in.index))

CallGetFunctionCallAt ==
    /\ http.kind = "response"
    /\ Gives("response", "GetFunctionCallAt",
             GetFunctionCallAt(http.in.typ, http.in.r, http.in.index))

\* What json.Unmarshal(bodyb, &back) gives for the bytes of json.Marshal(r),
\* when there are any.
DecodedBack(T, e) ==
    IF e.err # NilErr THEN [marshal |-> e, back |-> DecodeFailed(NilErr, Zero(T))]
    ELSE [marshal |-> e, back |-> Unmarshal(T, e.out, Zero(T))]

\* bodyb, err := json.Marshal(r); json.Unmarshal(bodyb, &back)
RoundTrip(T, r) == DecodedBack(T, Encode(T, r))

CallRoundTrip ==
    /\ http.kind = "object"
    /\ Gives("object", "RoundTrip", RoundTrip(TypeOf(http.in.typ), http.in.r))

CallNewMessage ==
    /\ http.kind = "message"
    /\ Gives("message", "NewMessage", NewMessage(http.in.role, http.in.opts))

\* The setting decoded from the bytes that MarshalJSON gave, when it gave any.
SettingBack(g, e) ==
    IF e.err # NilErr THEN [marshal |-> e, back |-> [err |-> NilErr, f |-> [Value |-> <<>>, Name |-> <<>>]]]
    ELSE [marshal |-> e, back |-> UnmarshalJSON(g, [Value |-> <<>>, Name |-> <<>>], e.out)]

\* b, err := f.MarshalJSON(); back.UnmarshalJSON(b)
CallMarshalJSON ==
    /\ http.kind = "setting"
    /\ Gives("setting", "MarshalJSON", SettingBack(gen, MarshalJSON(gen, http.in.f)))

\* The bytes of the setting that UnmarshalJSON gave, when it gave one.
SettingAgain(g, u) ==
    IF u.err # NilErr THEN [unmarshal |-> u, again |-> Encoded(<<>>)]
    ELSE [unmarshal |-> u, again |-> MarshalJSON(g, u.f)]

\* err := f.UnmarshalJSON(b); f.MarshalJSON()
CallUnmarshalJSON ==
    /\ http.kind = "text"
    /\ Gives("text", "UnmarshalJSON",
             SettingAgain(gen, UnmarshalJSON(gen, [Value |-> <<>>, Name |-> <<>>], http.in.b)))

CallNewClient ==
    /\ http.kind = "client"
    /\ Gives("client", "NewClient", NewClient(http.in.opts))

DataNext ==
    \/ CallGetChoiceAt
    \/ CallGetContentAt
    \/ CallGetFunctionCallAt
    \/ CallRoundTrip
    \/ CallNewMessage
    \/ CallMarshalJSON
    \/ CallUnmarshalJSON
    \/ CallNewClient

DataSpec == DataInit /\ [][DataNext]_vars

\* ------------------------------------------------------------ claims C21..
ChoicesLen == Len(http.in.r.Choices.elems)

ZeroChoice(typ) ==
    IF typ = "StreamingCompletionObject" THEN Zero(StreamingCompletionChoice)
    ELSE Zero(CompletionChoice)

\* C21: for each of the three response types, GetChoiceAt(index) returns
\* (Choices[index], true) when 0 <= index < len(Choices), and the zero choice
\* with false when index >= len(Choices), an empty or nil Choices included.
C21_GetChoiceAtInRange ==
    http.op = "GetChoiceAt" =>
        /\ (0 <= http.in.index /\ http.in.index < ChoicesLen) =>
              http.out = Returns(http.in.r.Choices.elems[http.in.index + 1], TRUE)
        /\ http.in.index >= ChoicesLen =>
              http.out = Returns(ZeroChoice(http.in.typ), FALSE)

\* GetChoiceAt(1) on a streaming object with two choices gave the second.
C21_Witness ==
    /\ http.op = "GetChoiceAt"
    /\ http.in.typ = "StreamingCompletionObject"
    /\ ChoicesLen = 2
    /\ http.in.index = 1
    /\ http.out.ok
    /\ http.out.v = http.in.r.Choices.elems[2]

\* C22: on a chat.CompletionResponse, GetChoiceAt with a negative index
\* panics instead of returning false, and so do GetContentAt and
\* GetFunctionCallAt, which call it.
C22_NegativeIndexPanics ==
    (/\ http.op \in {"GetChoiceAt", "GetContentAt", "GetFunctionCallAt"}
     /\ http.in.typ = "CompletionResponse"
     /\ http.in.index < 0)
        => http.out.panic

\* GetContentAt(-1) on a completion response with one choice panicked.
C22_Witness ==
    /\ http.op = "GetContentAt"
    /\ http.in.typ = "CompletionResponse"
    /\ ChoicesLen = 1
    /\ http.in.index = 0 - 1
    /\ http.out.panic

\* The message or delta of the choice at the index of the call at hand.
BodyAtIndex ==
    IF http.in.typ = "StreamingCompletionObject"
    THEN http.in.r.Choices.elems[http.in.index + 1].Delta
    ELSE http.in.r.Choices.elems[http.in.index + 1].Message

IndexInRange == 0 <= http.in.index /\ http.in.index < ChoicesLen

ContentPresent == IndexInRange /\ BodyAtIndex.Content # Nil

FunctionCallPresent == IndexInRange /\ BodyAtIndex.FunctionCall # Nil

\* What the claim says of the two accessors, for the calls in which ask
\* holds.
AccessorsAsStated(ask) ==
    /\ (http.op = "GetContentAt" /\ ask) =>
          IF ContentPresent
          THEN http.out = Returns(BodyAtIndex.Content[1], TRUE)
          ELSE http.out = Returns(<<>>, FALSE)
    /\ (http.op = "GetFunctionCallAt" /\ ask) =>
          IF FunctionCallPresent
          THEN http.out = Returns(BodyAtIndex.FunctionCall[1], TRUE)
          ELSE http.out = Returns(Zero(FunctionCall), FALSE)

\* What the claim says of NewMessage.
MessagesAsStated ==
    http.op = "NewMessage" =>
        /\ (/\ http.in.opts # <<>>
            /\ \A k \in 1..Len(http.in.opts) : http.in.opts[k].opt = "content")
              => http.out.Content # Nil /\ http.out.FunctionCall = Nil
        /\ (/\ http.in.opts # <<>>
            /\ \A k \in 1..Len(http.in.opts) : http.in.opts[k].opt = "function_call")
              => http.out.FunctionCall # Nil /\ http.out.Content = Nil

\* The types whose GetChoiceAt indexes Choices with a negative index.
PanicsBelowZero == http.in.typ \in {"CompletionResponse", "StreamingCompletionObject"}

\* C23 (as stated): GetContentAt returns (content, true) exactly when the
\* index is in range and the content is present and ("", false) in every
\* other case, GetFunctionCallAt likewise, and a message built with only
\* content has no function call and the other way round.
C23_AccessorsAtAnyIndex == AccessorsAsStated(TRUE) /\ MessagesAsStated

\* C23 (amended): the same for every index that is not negative, and for
\* every index on an openai.ChatCompletionResponse; with a negative index the
\* accessors of chat.CompletionResponse and chat.StreamingCompletionObject
\* panic.
C23_AccessorsFromZero ==
    /\ AccessorsAsStated(http.in.index >= 0 \/ ~PanicsBelowZero)
    /\ (/\ http.op \in {"GetContentAt", "GetFunctionCallAt"}
        /\ http.in.index < 0
        /\ PanicsBelowZero) => http.out.panic
    /\ MessagesAsStated

\* GetContentAt(0) on a choice that has a function call and no content gave
\* ("", false).
C23_Witness ==
    /\ http.op = "GetContentAt"
    /\ IndexInRange
    /\ BodyAtIndex.Content = Nil
    /\ BodyAtIndex.FunctionCall # Nil
    /\ http.out = Returns(<<>>, FALSE)

\* C24: encoding a streaming object or a completion response with
\* json.Marshal and decoding the bytes with json.Unmarshal gives an object
\* equal to the first one, whether content, function call and finish reason
\* are present or absent.
C24_RoundTrip ==
    http.op = "RoundTrip" =>
        /\ http.out.marshal.err = NilErr
        /\ http.out.back.err = NilErr
        /\ http.out.back.v = http.in.r

\* p is a JSON string, or a JSON object with a member "name" whose value is
\* a string.
StringOrNamed(p) ==
    /\ p.ok
    /\ \/ p.t = "string"
       \/ /\ p.t = "object"
          /\ \E k \in 1..Len(p.kids) :
                p.kids[k].k = KeyName /\ p.kids[k].v.t = "string"

\* C25: functionCallSetting.UnmarshalJSON succeeds only for a JSON string
\* (which becomes Value) and for a JSON object with a "name" member whose
\* value is a string (which becomes Name); every other input is rejected
\* with an error, so a decoded setting has a Value or a Name that is not
\* empty and can be marshalled again.
C25_UnmarshalRejectsOthers ==
    (http.op = "UnmarshalJSON" /\ http.out.unmarshal.err = NilErr) =>
        /\ StringOrNamed(ScanText(http.in.b))
        /\ http.out.unmarshal.f.Value # <<>> \/ http.out.unmarshal.f.Name # <<>>
        /\ http.out.again.err = NilErr

\* p is the JSON string with the text v.
IsStringOf(p, v) == p.ok /\ p.t = "string" /\ p.str = v

\* p is the JSON object {"name": v}.
IsNameObjectOf(p, v) ==
    /\ p.ok
    /\ p.t = "object"
    /\ Len(p.kids) = 1
    /\ p.kids[1].k = KeyName
    /\ IsStringOf(p.kids[1].v, v)

\* C26: functionCallSetting.MarshalJSON gives the JSON string of Value when
\* Value is not empty (Value wins over Name), the object {"name": Name} when
\* only Name is not empty, and the error "function call setting must have a
\* value or a name" when both are empty; when exactly one of the two is set,
\* UnmarshalJSON of the bytes gives an equal setting.
C26_MarshalSetting ==
    http.op = "MarshalJSON" =>
        /\ http.in.f.Value # <<>> =>
              /\ http.out.marshal.err = NilErr
              /\ IsStringOf(ScanText(http.out.marshal.out), http.in.f.Value)
        /\ (http.in.f.Value = <<>> /\ http.in.f.Name # <<>>) =>
              /\ http.out.marshal.err = NilErr
              /\ IsNameObjectOf(ScanText(http.out.marshal.out), http.in.f.Name)
        /\ (http.in.f.Value = <<>> /\ http.in.f.Name = <<>>) =>
              http.out.marshal.err = ErrInvalidFunctionCallSetting
        /\ ((http.in.f.Value = <<>>) # (http.in.f.Name = <<>>)) =>
              /\ http.out.back.err = NilErr
              /\ http.out.back.f = http.in.f

\* A setting with only a name, one that needs an escape, was written as an
\* object and read back.
C26_Witness ==
    /\ http.op = "MarshalJSON"
    /\ http.in.f = [Value |-> <<>>, Name |-> TextQuoted]
    /\ http.out.marshal.err = NilErr
    /\ http.out.back.f = http.in.f

\* The argument of the last option of the kind among opts, or dflt.
RECURSIVE LastArg(_, _, _)
LastArg(opts, kind, dflt) ==
    IF opts = <<>> THEN dflt
    ELSE IF opts[Len(opts)].opt = kind THEN opts[Len(opts)].arg
    ELSE LastArg(SubSeq(opts, 1, Len(opts) - 1), kind, dflt)

\* The common service is configured from the options, the last of a kind
\* winning, with the defaults for what no option sets.
CommonConfigured ==
    /\ http.out.common # Nil
    /\ http.out.common[1].Client =
          [baseURL |-> LastArg(http.in.opts, "baseURL", DefaultBaseURL),
           key |-> LastArg(http.in.opts, "key", ""),
           doer |-> LastArg(http.in.opts, "doer", HttpDefaultClient)]

\* C27: NewClient returns a Client whose Chat and Embeddings services are
\* both non-nil and are the same common service, configured with the base
\* URL, key and doer of the options applied in order (the last one wins),
\* DefaultBaseURL and http.DefaultClient being the defaults.
C27_NewClientServices ==
    http.op = "NewClient" =>
        /\ CommonConfigured
        /\ http.out.Chat # Nil
        /\ http.out.Chat = http.out.common
        /\ http.out.Embeddings # Nil
        /\ http.out.Embeddings = http.out.common

====
